---------------------------- MODULE Spec2Model ----------------------------
(***************************************************************************)
(* Model of the flare-custom-feeds-toolkit oracle contract                 *)
(* (contracts/PoolPriceCustomFeed.sol).                                    *)
(*                                                                         *)
(* Solidity's uint256 values do not fit TLC's machine integers, so every   *)
(* uintN value of the contract is a natural number written as a sequence   *)
(* of base-256 limbs, least significant first, without leading zero limbs  *)
(* (zero is the empty sequence).  The arithmetic below is exact.           *)
(***************************************************************************)
EXTENDS Integers, Sequences, FiniteSets, TLC

\* ------------------------------------------------------------------------
\* Exact natural-number arithmetic on limb sequences
\* ------------------------------------------------------------------------

Base == 2 ^ 8

Zero == << >>

RECURSIVE Norm(_)
Norm(a) ==
    IF a = << >> THEN << >>
    ELSE IF a[Len(a)] = 0 THEN Norm(SubSeq(a, 1, Len(a) - 1))
    ELSE a

RECURSIVE FromInt(_)
FromInt(n) == IF n = 0 THEN << >> ELSE <<n % Base>> \o FromInt(n \div Base)

RECURSIVE AddC(_, _, _)
AddC(a, b, c) ==
    IF a = << >> /\ b = << >> THEN (IF c = 0 THEN << >> ELSE <<c>>)
    ELSE LET x == IF a = << >> THEN 0 ELSE Head(a)
             y == IF b = << >> THEN 0 ELSE Head(b)
             s == x + y + c
         IN  <<s % Base>> \o AddC(IF a = << >> THEN a ELSE Tail(a),
                                  IF b = << >> THEN b ELSE Tail(b),
                                  s \div Base)

Add(a, b) == AddC(a, b, 0)

\* a - b for a >= b
RECURSIVE SubB(_, _, _)
SubB(a, b, br) ==
    IF a = << >> THEN << >>
    ELSE LET y == IF b = << >> THEN 0 ELSE Head(b)
             d == Head(a) - y - br
         IN  <<IF d < 0 THEN d + Base ELSE d>>
               \o SubB(Tail(a), IF b = << >> THEN b ELSE Tail(b),
                       IF d < 0 THEN 1 ELSE 0)

Sub(a, b) == Norm(SubB(a, b, 0))

\* a * d for a machine integer 0 <= d < 2^22
RECURSIVE MulSmallC(_, _, _)
MulSmallC(a, d, c) ==
    IF a = << >> THEN FromInt(c)
    ELSE LET p == Head(a) * d + c
         IN  <<p % Base>> \o MulSmallC(Tail(a), d, p \div Base)

MulSmall(a, d) == Norm(MulSmallC(a, d, 0))

\* a * b, limb by limb from the most significant limb of a; acc is
\* evaluated before each step
RECURSIVE MulAcc(_, _, _, _)
MulAcc(a, b, i, acc) ==
    IF i = 0 THEN acc
    ELSE LET next == Add(MulSmall(b, a[i]), Norm(<<0>> \o acc))
         IN  IF Len(next) >= 0 THEN MulAcc(a, b, i - 1, next) ELSE acc

Mul(a, b) ==
    IF a = << >> \/ b = << >> THEN << >> ELSE Norm(MulAcc(a, b, Len(a), << >>))

\* comparison, most significant limb first
RECURSIVE LessFrom(_, _, _)
LessFrom(a, b, i) ==
    IF i = 0 THEN FALSE
    ELSE IF a[i] # b[i] THEN a[i] < b[i]
    ELSE LessFrom(a, b, i - 1)

Less(a, b) ==
    IF Len(a) # Len(b) THEN Len(a) < Len(b) ELSE LessFrom(a, b, Len(a))

Leq(a, b) == ~Less(b, a)

\* the largest q in lo..hi with q * d <= r (binary search; lo qualifies)
RECURSIVE QuotDigit(_, _, _, _)
QuotDigit(r, d, lo, hi) ==
    IF lo = hi THEN lo
    ELSE LET mid == (lo + hi + 1) \div 2
         IN  IF Leq(MulSmall(d, mid), r) THEN QuotDigit(r, d, mid, hi)
             ELSE QuotDigit(r, d, lo, mid - 1)

\* long division by d # 0 from the most significant limb of a: q holds the
\* quotient limbs found so far, r the running remainder
RECURSIVE DivAcc(_, _, _, _, _)
DivAcc(a, d, i, q, r) ==
    IF i = 0 THEN q
    ELSE LET rr   == Norm(<<a[i]>> \o r)
             dig  == QuotDigit(rr, d, 0, Base - 1)
             rem  == Sub(rr, MulSmall(d, dig))
             qq   == <<dig>> \o q
         IN  IF Len(rem) + Len(qq) >= 0 THEN DivAcc(a, d, i - 1, qq, rem)
             ELSE q

\* floor(a / d) for d # 0: Solidity's unsigned integer division; a divisor
\* that is a power of the base drops the low limbs
Div(a, d) ==
    IF d[Len(d)] = 1 /\ \A i \in 1..(Len(d) - 1) : d[i] = 0
      THEN (IF Len(a) < Len(d) THEN << >> ELSE SubSeq(a, Len(d), Len(a)))
    ELSE Norm(DivAcc(a, d, Len(a), << >>, << >>))

\* 2^k
Pow2(k) == [i \in 1..(k \div 8 + 1) |-> IF i = k \div 8 + 1 THEN 2 ^ (k % 8) ELSE 0]

\* 10^k for 0 <= k <= 18
Pow10(k) ==
    IF k <= 6 THEN FromInt(10 ^ k)
    ELSE IF k <= 12 THEN MulSmall(FromInt(10 ^ 6), 10 ^ (k - 6))
    ELSE MulSmall(MulSmall(FromInt(10 ^ 6), 10 ^ 6), 10 ^ (k - 12))

\* the n least significant limbs of a: the cast to a narrower unsigned type
Truncate(a, n) == Norm(SubSeq(a, 1, IF Len(a) < n THEN Len(a) ELSE n))

\* a < 2^bits, for bits a multiple of 8
FitsBits(a, bits) == Len(a) <= bits \div 8

\* ------------------------------------------------------------------------
\* Checked uint256 arithmetic (Solidity ^0.8: overflow reverts with Panic)
\* ------------------------------------------------------------------------

Ok(v)      == [ok |-> TRUE, err |-> "", value |-> v]
Revert(e)  == [ok |-> FALSE, err |-> e, value |-> Zero]

PanicOverflow == "Panic(0x11)"
PanicIndex    == "Panic(0x32)"
DecodeError   == "abi.decode"

\* x * y on uint256 results x, y of earlier steps
CheckedMul(x, y) ==
    IF ~x.ok THEN x
    ELSE IF ~y.ok THEN y
    ELSE LET p == Mul(x.value, y.value)
         IN  IF FitsBits(p, 256) THEN Ok(p) ELSE Revert(PanicOverflow)

\* x / y on uint256 results (y is never zero in this contract)
CheckedDiv(x, y) ==
    IF ~x.ok THEN x
    ELSE IF ~y.ok THEN y
    ELSE Ok(Div(x.value, y.value))

\* ------------------------------------------------------------------------
\* PoolPriceCustomFeed: constants
\* ------------------------------------------------------------------------

DECIMALS == 6

\* keccak256 of the PriceRecorded signature, as an opaque 32-byte value
PRICE_RECORDED_TOPIC == "PriceRecorded(address,uint160,int24,uint128,address,address,uint256,uint256)"

\* type(uint128).max
Uint128Max == Sub(Pow2(128), <<1>>)

ZeroAddress == "0x0"

\* the inversion step rounding up instead of truncating
invertStepCeil(price6, invert) ==
    IF price6.ok /\ invert /\ Less(Zero, price6.value)
      THEN CheckedDiv(Ok(Sub(Add(Pow10(12), price6.value), <<1>>)), price6)
    ELSE price6

\* _calculatePrice, lines 405-408: 10^12 / price when inversion is configured
\* and the price is positive
invertStep(price6, invert) ==
    IF price6.ok /\ invert /\ Less(Zero, price6.value)
      THEN CheckedDiv(Ok(Pow10(12)), price6)
    ELSE price6

\* _calculatePrice, lines 411-413: the two requires on the final price
sanityChecks(price) ==
    IF ~price.ok THEN price
    ELSE IF ~Less(Zero, price.value) THEN Revert("Price must be positive")
    ELSE IF ~Less(price.value, Uint128Max) THEN Revert("Price exceeds maximum")
    ELSE price

\* x * y wrapping modulo 2^256, as in an unchecked block
WrappingMul(x, y) ==
    IF ~x.ok THEN x
    ELSE IF ~y.ok THEN y
    ELSE Ok(Truncate(Mul(x.value, y.value), 32))

\* _calculatePrice with multiplications that wrap instead of reverting
_calculatePriceWrapping(sqrtPriceX96, t0Decimals, t1Decimals, invert) ==
    LET Q96         == Ok(Pow2(96))
        numerator   == WrappingMul(WrappingMul(Ok(sqrtPriceX96), Ok(sqrtPriceX96)),
                                   Ok(Pow10(18)))
        denominator == WrappingMul(Q96, Q96)
        price18     == CheckedDiv(numerator, denominator)
        decimalAdjustment == t0Decimals - t1Decimals
        adjusted    == IF decimalAdjustment > 0
                         THEN WrappingMul(price18, Ok(Pow10(decimalAdjustment)))
                       ELSE IF decimalAdjustment < 0
                         THEN CheckedDiv(price18, Ok(Pow10(-decimalAdjustment)))
                       ELSE price18
        price6      == CheckedDiv(adjusted, Ok(Pow10(12)))
        price       == invertStep(price6, invert)
    IN  sanityChecks(price)

\* _calculatePrice without the check that the price is positive
_calculatePriceUnchecked(sqrtPriceX96, t0Decimals, t1Decimals, invert) ==
    LET Q96         == Ok(Pow2(96))
        numerator   == CheckedMul(CheckedMul(Ok(sqrtPriceX96), Ok(sqrtPriceX96)),
                                  Ok(Pow10(18)))
        denominator == CheckedMul(Q96, Q96)
        price18     == CheckedDiv(numerator, denominator)
        decimalAdjustment == t0Decimals - t1Decimals
        adjusted    == IF decimalAdjustment > 0
                         THEN CheckedMul(price18, Ok(Pow10(decimalAdjustment)))
                       ELSE IF decimalAdjustment < 0
                         THEN CheckedDiv(price18, Ok(Pow10(-decimalAdjustment)))
                       ELSE price18
        price6      == CheckedDiv(adjusted, Ok(Pow10(12)))
        price       == invertStep(price6, invert)
    IN  IF ~price.ok THEN price
        ELSE IF ~Less(price.value, Uint128Max) THEN Revert("Price exceeds maximum")
        ELSE price

\* ------------------------------------------------------------------------
\* PoolPriceCustomFeed._calculatePrice, with the immutables it reads passed as arguments
\* ------------------------------------------------------------------------

_calculatePrice(sqrtPriceX96, t0Decimals, t1Decimals, invert) ==
    LET Q96         == Ok(Pow2(96))
        numerator   == CheckedMul(CheckedMul(Ok(sqrtPriceX96), Ok(sqrtPriceX96)),
                                  Ok(Pow10(18)))
        denominator == CheckedMul(Q96, Q96)
        price18     == CheckedDiv(numerator, denominator)
        decimalAdjustment == t0Decimals - t1Decimals
        adjusted    == IF decimalAdjustment > 0
                         THEN CheckedMul(price18, Ok(Pow10(decimalAdjustment)))
                       ELSE IF decimalAdjustment < 0
                         THEN CheckedDiv(price18, Ok(Pow10(-decimalAdjustment)))
                       ELSE price18
        price6      == CheckedDiv(adjusted, Ok(Pow10(12)))
        price       == invertStep(price6, invert)
    IN  sanityChecks(price)

\* ------------------------------------------------------------------------
\* Addresses, events and proofs submitted to the feed
\* ------------------------------------------------------------------------

Recorder      == "recorder"        \* the PriceRecorder the feed is deployed for
OtherContract == "otherContract"   \* any other contract on the source chain
PoolA         == "poolA"
PoolB         == "poolB"
Alice         == "alice"           \* deployer of the feed
Bob           == "bob"

Callers == {Alice, Bob}

OTHER_TOPIC == "Transfer(address,address,uint256)"

\* the ABI-encoded, non-indexed part of a PriceRecorded event: seven 32-byte
\* words (sqrtPriceX96, tick, liquidity, token0, token1, timestamp,
\* blockNumber)
EventData(sqrtPriceX96, timestamp) ==
    <<sqrtPriceX96, Zero, Zero, Zero, Zero, timestamp, Zero>>

\* the 32-byte word of the smallest int24, -2^23
Int24Min == Sub(Pow2(256), Pow2(23))

\* abi.decode(evt.data, (uint160,int24,uint128,address,address,uint256,
\* uint256)): reverts on short data and on a word outside its type's range
AbiDecode(data) ==
    IF Len(data) < 7 THEN Revert(DecodeError)
    ELSE IF ~FitsBits(data[1], 160) THEN Revert(DecodeError)
    ELSE IF ~(Less(data[2], Pow2(23)) \/ Leq(Int24Min, data[2]))
         THEN Revert(DecodeError)
    ELSE IF ~FitsBits(data[3], 128) THEN Revert(DecodeError)
    ELSE IF ~FitsBits(data[4], 160) \/ ~FitsBits(data[5], 160)
         THEN Revert(DecodeError)
    ELSE [ok |-> TRUE, err |-> "", sqrtPriceX96 |-> data[1],
          eventTimestamp |-> data[6]]

Event(emitter, topics, data) ==
    [emitterAddress |-> emitter, topics |-> topics, data |-> data]

Time1 == FromInt(1700001000)
Time2 == FromInt(1700002000)

\* sqrtPriceX96 values: 2^96 is the 1:1 price, 2^97 the price 4
SqrtOne  == Pow2(96)
SqrtFour == Pow2(97)
SqrtHuge == Pow2(128)

\* a recording of the configured pool at the later time
EvGood1     == Event(Recorder, <<PRICE_RECORDED_TOPIC, PoolA>>, EventData(SqrtOne, Time2))
\* a recording of the configured pool at the earlier time, at another price
EvGood2     == Event(Recorder, <<PRICE_RECORDED_TOPIC, PoolA>>, EventData(SqrtFour, Time1))
\* a recording of another pool by the same recorder
EvWrongPool == Event(Recorder, <<PRICE_RECORDED_TOPIC, PoolB>>, EventData(SqrtFour, Time2))
\* a PriceRecorded event for the configured pool emitted by another contract
EvSpoof     == Event(OtherContract, <<PRICE_RECORDED_TOPIC, PoolA>>, EventData(SqrtFour, Time2))
\* another event of the recorder
EvOther     == Event(Recorder, <<OTHER_TOPIC, PoolA>>, EventData(SqrtFour, Time2))
\* an anonymous event of the recorder: no topics
EvNoTopics  == Event(Recorder, << >>, EventData(SqrtFour, Time2))
\* the PriceRecorded signature without the indexed pool
EvShort     == Event(Recorder, <<PRICE_RECORDED_TOPIC>>, EventData(SqrtFour, Time2))
\* a recording whose price computes to zero
EvZero      == Event(Recorder, <<PRICE_RECORDED_TOPIC, PoolA>>, EventData(Zero, Time2))
\* a recording whose squared price times 10^18 overflows uint256
EvHuge      == Event(Recorder, <<PRICE_RECORDED_TOPIC, PoolA>>, EventData(SqrtHuge, Time2))
\* a PriceRecorded event with truncated data
EvBadData   == Event(Recorder, <<PRICE_RECORDED_TOPIC, PoolA>>, <<SqrtOne>>)

EventLists ==
    { << >>,
      <<EvGood1>>, <<EvGood2>>, <<EvSpoof, EvGood1>>, <<EvGood2, EvWrongPool>>,
      <<EvWrongPool>>, <<EvWrongPool, EvGood1>>, <<EvOther, EvGood1>>,
      <<EvSpoof>>, <<EvOther>>, <<EvNoTopics, EvOther>>,
      <<EvShort>>, <<EvZero>>, <<EvHuge>>, <<EvBadData>> }

ValidPath   == "validPath"     \* a Merkle path the FDC verifier accepts
InvalidPath == "invalidPath"   \* a Merkle path the FDC verifier rejects

StatusValues == {0, 1}

\* IEVMTransaction.Proof, with the fields the feed reads
Proof(merkleProof, receivingAddress, status, events) ==
    [merkleProof |-> merkleProof,
     data |-> [responseBody |-> [receivingAddress |-> receivingAddress,
                                 status |-> status, events |-> events]]]

\* the proofs submitted: every event list in a verified proof of a successful
\* transaction to the recorder, and every combination of Merkle path,
\* receiving address and status around three of the event lists
Proofs ==
    { Proof(ValidPath, Recorder, 1, evs) : evs \in EventLists }
    \cup
    { Proof(m, r, st, evs) :
        m \in {ValidPath, InvalidPath}, r \in {Recorder, OtherContract},
        st \in StatusValues, evs \in { << >>, <<EvGood1>>, <<EvWrongPool>> } }

\* IFdcVerification.verifyEVMTransaction: the external verifier's verdict
verifyEVMTransaction(proof) == proof.merkleProof = ValidPath

\* ------------------------------------------------------------------------
\* PoolPriceCustomFeed: state
\* ------------------------------------------------------------------------

VARIABLES
    \* immutables, set by the constructor
    feedId, priceRecorderAddress, poolAddress,
    token0Decimals, token1Decimals, invertPrice,
    \* storage
    owner, latestValue, lastUpdateTimestamp, updateCount,
    acceptingUpdates, totalProofsVerified,
    \* history: the last call made to the feed and its outcome
    last,
    \* history: if the call before the last one was a successful update, the
    \* one-element sequence of its proof and the updateCount before it; else
    \* the empty sequence
    previousAccepted,
    \* history: the proofs accepted so far
    acceptedProofs,
    \* _calculatePrice under this deployment's immutables, tabulated at
    \* construction for the sqrtPriceX96 values that occur in events
    priceOf

VARIABLES
    \* price calculations outside a deployment's state: the input one
    \* calculation is applied to and, once applied, what each implementation
    \* returned
    priceInput, priceOutput

VARIABLES
    \* CustomFeedsBot: the statement the main loop is at
    pc,
    \* CustomFeedsBot fields
    isRunning, cycleCount, currentPoolIndex, stats,
    \* process.exit: "none" while the process lives, else the exit code
    exitCode,
    \* locals of start and tryAttest: the poolConfig selected for the cycle, the
    \* result of tryRecordPrice, the retry counter, and what the current
    \* attempt holds of requestBytes, votingRoundId and proof
    cyclePoolConfig, recordingResult, attempt, fdc,
    \* whether a timeout races the transaction wait in progress
    timerArmed,
    \* history: the last step taken and how the awaited call answered
    step,
    \* history: the chain steps completed in the current cycle (those of
    \* the current attempt only, after the recording)
    trace,
    \* history: the last selections of getNextPoolToProcess, as many as
    \* there are pools, each with the cycle it was made in
    selections,
    \* history: the feeds for which recordPrice was sent and whose
    \* record-then-attest run has not yet ended (in success, in a failed
    \* recording, or in an attestation given up)
    inProgress,
    \* tryRecordPrice: gasPriceGwei, held as the amount in wei it is computed
    \* from; Zero outside tryRecordPrice
    gasPriceGwei,
    \* history: balanceFLR of the last balance check
    balanceFLR,
    \* history: the updateFromProof transactions included in a block for the
    \* recording of the current cycle
    committed

VARIABLES
    \* useFeedUpdater: the statement the running updateFeed call is at, "idle"
    \* when no call is running
    uiPc,
    \* useFeedUpdater state
    progress, isUpdating, cancelled,
    \* the running updateFeed call: the value of cancelled its closure holds,
    \* and its locals
    run,
    \* history: the transactions and proxy requests the running call has
    \* sent, in order
    calls,
    \* history: the number of updateFeed calls made
    runs

VARIABLES
    \* PriceRecorder storage
    recorderOwner, isRecording, updateInterval, enabledPools, poolInfo, poolList,
    \* block.timestamp of the block being built
    blockTimestamp,
    \* history: for each pool the number of PriceRecorded events emitted
    \* and the block timestamp of the last one, and whether
    \* emergencyRecordPrice has emitted any
    recorded,
    \* history: the last call made to the recorder and its outcome
    lastRecorderCall

VARIABLES
    \* proof formatting outside a run: the DA layer answer one formatting is
    \* applied to and, once applied, the struct given to updateFromProof
    formatInput, formatOutput

config  == <<feedId, priceRecorderAddress, poolAddress,
             token0Decimals, token1Decimals, invertPrice>>
oracle  == <<latestValue, lastUpdateTimestamp, updateCount, totalProofsVerified>>
storage == <<owner, latestValue, lastUpdateTimestamp, updateCount,
             acceptingUpdates, totalProofsVerified>>
history == <<last, previousAccepted, acceptedProofs>>
priceMath == <<priceInput, priceOutput>>
selection == <<cyclePoolConfig, selections>>
bot     == <<pc, isRunning, cycleCount, currentPoolIndex, stats, exitCode,
             selection, recordingResult, attempt, fdc, timerArmed, step, trace,
             inProgress, gasPriceGwei, balanceFLR, committed>>
dash    == <<uiPc, progress, isUpdating, cancelled, run, calls, runs>>
priceRecorder == <<recorderOwner, isRecording, updateInterval, enabledPools, poolInfo,
                   poolList, blockTimestamp, recorded, lastRecorderCall>>
format  == <<formatInput, formatOutput>>
fixed   == <<config, priceOf, priceMath, bot, dash, priceRecorder, format>>
feed    == <<config, storage, history, priceOf>>
outsideBot == <<feed, priceMath, dash, priceRecorder, format>>
vars    == <<feed, priceMath, bot, dash, priceRecorder, format>>

\* bound on the number of updates explored
MaxUpdates == 2

NoArg == "none"

\* ------------------------------------------------------------------------
\* Constructor
\* ------------------------------------------------------------------------

\* _generateFeedId: 0x21, then the name's bytes, zero-padded to 21 bytes
_generateFeedId(name) ==
    IF ~(Len(name) > 0 /\ Len(name) <= 20) THEN Revert("Invalid name length")
    ELSE Ok([i \in 1..21 |-> IF i = 1 THEN 33
                             ELSE IF i - 1 <= Len(name) THEN name[i - 1]
                             ELSE 0])

FeedName == <<70, 88, 82, 80>>

\* the sqrtPriceX96 values that occur in events
SqrtValues == {Zero, SqrtOne, SqrtFour, SqrtHuge}

\* constructor arguments tried: <<_priceRecorder, _poolAddress, _feedName,
\* _fdcVerificationAddress, _token0Decimals, _token1Decimals, _invertPrice>>
ConstructorArgs ==
    { <<Recorder, PoolA, FeedName, "fdcVerification", 18, 18, FALSE>>,
      <<Recorder, PoolA, FeedName, "fdcVerification", 8, 6, TRUE>>,
      <<ZeroAddress, PoolA, FeedName, "fdcVerification", 18, 18, FALSE>>,
      <<Recorder, ZeroAddress, FeedName, "fdcVerification", 18, 18, FALSE>>,
      <<Recorder, PoolA, FeedName, ZeroAddress, 18, 18, FALSE>>,
      <<Recorder, PoolA, FeedName, "fdcVerification", 0, 18, FALSE>>,
      <<Recorder, PoolA, FeedName, "fdcVerification", 18, 19, FALSE>>,
      <<Recorder, PoolA, << >>, "fdcVerification", 18, 18, FALSE>> }

\* the constructor's outcome
constructor(a) ==
    IF a[1] = ZeroAddress THEN "Invalid recorder address"
    ELSE IF a[2] = ZeroAddress THEN "Invalid pool address"
    ELSE IF a[4] = ZeroAddress THEN "Invalid FDC address"
    ELSE IF ~(a[5] > 0 /\ a[5] <= 18) THEN "Invalid token0 decimals"
    ELSE IF ~(a[6] > 0 /\ a[6] <= 18) THEN "Invalid token1 decimals"
    ELSE IF ~_generateFeedId(a[3]).ok THEN _generateFeedId(a[3]).err
    ELSE "ok"

Call(op, sender, arg, result) ==
    [op |-> op, sender |-> sender, arg |-> arg, result |-> result,
     pre |-> [latestValue |-> latestValue,
              lastUpdateTimestamp |-> lastUpdateTimestamp,
              updateCount |-> updateCount,
              totalProofsVerified |-> totalProofsVerified]]

\* the state a successful constructor leaves; sqrtValues is the domain priceOf
\* is tabulated on
Deploy(a, sqrtValues) ==
        /\ constructor(a) = "ok"
        /\ owner = Alice
        /\ priceRecorderAddress = a[1]
        /\ poolAddress = a[2]
        /\ acceptingUpdates = TRUE
        /\ token0Decimals = a[5]
        /\ token1Decimals = a[6]
        /\ invertPrice = a[7]
        /\ feedId = _generateFeedId(a[3]).value
        /\ latestValue = Zero
        /\ lastUpdateTimestamp = Zero
        /\ updateCount = 0
        /\ totalProofsVerified = 0
        /\ last = [op |-> "constructor", sender |-> Alice, arg |-> NoArg,
                   result |-> "ok",
                   pre |-> [latestValue |-> Zero, lastUpdateTimestamp |-> Zero,
                            updateCount |-> 0, totalProofsVerified |-> 0]]
        /\ previousAccepted = << >>
        /\ acceptedProofs = {}
        /\ priceOf = [s \in sqrtValues |-> _calculatePrice(s, a[5], a[6], a[7])]

\* no price calculation is in progress
NoPriceInput  == [op |-> "none"]
NoPriceOutput == << >>
PriceMathIdle == priceInput = NoPriceInput /\ priceOutput = NoPriceOutput

\* CustomFeedsBot constructor
PoolC == "poolC"
POOLS == <<PoolA, PoolB, PoolC>>

NoPool      == "null"
NoBalance   == -1
NoRecording == << >>
NoProof     == [votingRoundId |-> 0, requestBytes |-> 0]
NoFdc       == [requestBytes |-> 0, fee |-> Zero, value |-> Zero,
                votingRoundId |-> 0, waited |-> 0, proof |-> NoProof]
NoStep      == [name |-> "constructor", result |-> "ok"]

BotConstructed ==
    /\ pc = "constructed"
    /\ isRunning = FALSE
    /\ cycleCount = 0
    /\ currentPoolIndex = 0
    /\ stats = [recording   |-> [successful |-> 0, failed |-> 0,
                                 consecutiveFailures |-> 0],
                attestation |-> [successful |-> 0, failed |-> 0]]
    /\ exitCode = "none"
    /\ cyclePoolConfig = NoPool
    /\ recordingResult = NoRecording
    /\ attempt = 0
    /\ fdc = NoFdc
    /\ timerArmed = FALSE
    /\ step = NoStep
    /\ trace = << >>
    /\ selections = << >>
    /\ inProgress = {}
    /\ gasPriceGwei = Zero
    /\ balanceFLR = NoBalance
    /\ committed = 0

\* useFeedUpdater(): the initial state of the hook
NoRun ==
    [cancelled |-> FALSE, recordHash |-> 0, requestBytes |-> 0, fee |-> Zero,
     value |-> Zero, votingRoundId |-> 0, waited |-> 0, finalized |-> FALSE, proof |-> NoProof]

Progress(stepName, message) == [step |-> stepName, message |-> message]

DashMounted ==
    /\ uiPc = "idle"
    /\ progress = Progress("idle", "")
    /\ isUpdating = FALSE
    /\ cancelled = FALSE
    /\ run = NoRun
    /\ calls = << >>
    /\ runs = 0

\* the pools a PriceRecorder is asked about: two Uniswap V3 pools, a
\* contract without slot0(), a pool whose fee tier is not a V3 tier and a
\* pool answering the same token twice
NotAPool      == "notAPool"
OddFeePool    == "oddFeePool"
SameTokenPool == "sameTokenPool"
RecorderPools == {PoolA, PoolB, NotAPool, OddFeePool, SameTokenPool, ZeroAddress}

NoPoolInfo ==
    [token0 |-> ZeroAddress, token1 |-> ZeroAddress, fee |-> 0,
     lastUpdate |-> 0, updateCount |-> 0]

\* the outcome of a call: "ok" or the message it reverts with
RecorderCall(op, result) == [op |-> op, result |-> result]

\* the pool that gets enabled; PoolB is a pool never enabled
RecordedPools == {PoolA}

\* no PriceRecorded event has been emitted
NoRecorded ==
    [events    |-> [p \in RecordedPools |-> 0],
     last      |-> [p \in RecordedPools |-> 0],
     emergency |-> FALSE]

\* PriceRecorder constructor, in a block of timestamp now
RecorderConstructor(sender, _initialInterval) ==
    IF ~(_initialInterval > 0) THEN "Invalid interval" ELSE "ok"

RecorderDeployed(sender, _initialInterval, now) ==
    /\ RecorderConstructor(sender, _initialInterval) = "ok"
    /\ recorderOwner = sender
    /\ isRecording = TRUE
    /\ updateInterval = _initialInterval
    /\ enabledPools = [p \in RecorderPools |-> FALSE]
    /\ poolInfo = [p \in RecorderPools |-> NoPoolInfo]
    /\ poolList = << >>
    /\ blockTimestamp = now
    /\ recorded = NoRecorded
    /\ lastRecorderCall = RecorderCall("constructor", "ok")

RecorderIdle == RecorderDeployed(Alice, 1, 1)

\* no proof formatting is in progress
NoFormatInput  == [client |-> "none", response_hex |-> << >>,
                   proofPresent |-> FALSE, proof |-> << >>]
NoFormatOutput == << >>
FormatIdle == formatInput = NoFormatInput /\ formatOutput = NoFormatOutput

Init ==
    /\ \E a \in ConstructorArgs : Deploy(a, SqrtValues)
    /\ PriceMathIdle
    /\ BotConstructed
    /\ DashMounted
    /\ RecorderIdle
    /\ FormatIdle

\* ------------------------------------------------------------------------
\* updateFromProof
\* ------------------------------------------------------------------------

\* ParseFrom without the check of the indexed pool
RECURSIVE ParseFromAnyPool(_, _, _, _)
ParseFromAnyPool(events, i, recorder, pool) ==
    IF i > Len(events) THEN Revert("PriceRecorded event not found")
    ELSE LET evt == events[i] IN
         IF evt.emitterAddress # recorder
         THEN ParseFromAnyPool(events, i + 1, recorder, pool)
         ELSE IF Len(evt.topics) > 0 /\ evt.topics[1] = PRICE_RECORDED_TOPIC
         THEN IF Len(evt.topics) < 2 THEN Revert(PanicIndex)
              ELSE [ok |-> TRUE, err |-> "", index |-> i]
         ELSE ParseFromAnyPool(events, i + 1, recorder, pool)

\* ParseFrom passing over a PriceRecorded event of another pool
RECURSIVE ParseFromSkippingWrongPool(_, _, _, _)
ParseFromSkippingWrongPool(events, i, recorder, pool) ==
    IF i > Len(events) THEN Revert("PriceRecorded event not found")
    ELSE LET evt == events[i] IN
         IF evt.emitterAddress # recorder
         THEN ParseFromSkippingWrongPool(events, i + 1, recorder, pool)
         ELSE IF Len(evt.topics) > 0 /\ evt.topics[1] = PRICE_RECORDED_TOPIC
         THEN IF Len(evt.topics) < 2 THEN Revert(PanicIndex)
              ELSE IF evt.topics[2] # pool
                THEN ParseFromSkippingWrongPool(events, i + 1, recorder, pool)
              ELSE [ok |-> TRUE, err |-> "", index |-> i]
         ELSE ParseFromSkippingWrongPool(events, i + 1, recorder, pool)

\* _parseEvents from index i on: the first event of the recorder carrying
\* the PriceRecorded signature decides
RECURSIVE ParseFrom(_, _, _, _)
ParseFrom(events, i, recorder, pool) ==
    IF i > Len(events) THEN Revert("PriceRecorded event not found")
    ELSE LET evt == events[i] IN
         IF evt.emitterAddress # recorder THEN ParseFrom(events, i + 1, recorder, pool)
         ELSE IF Len(evt.topics) > 0 /\ evt.topics[1] = PRICE_RECORDED_TOPIC
         THEN IF Len(evt.topics) < 2 THEN Revert(PanicIndex)
              ELSE IF evt.topics[2] # pool THEN Revert("Wrong pool")
              ELSE [ok |-> TRUE, err |-> "", index |-> i]
         ELSE ParseFrom(events, i + 1, recorder, pool)

\* _parseEvents: price and timestamp of the deciding event
_parseEvents(events) ==
    LET found == ParseFrom(events, 1, priceRecorderAddress, poolAddress)
    IN  IF ~found.ok THEN [ok |-> FALSE, err |-> found.err]
        ELSE LET decoded == AbiDecode(events[found.index].data)
             IN  IF ~decoded.ok THEN [ok |-> FALSE, err |-> decoded.err]
                 ELSE LET price == priceOf[decoded.sqrtPriceX96]
                      IN  IF ~price.ok THEN [ok |-> FALSE, err |-> price.err]
                          ELSE [ok |-> TRUE, err |-> "", price |-> price.value,
                                timestamp |-> Truncate(decoded.eventTimestamp, 8)]

\* what the call just recorded in last becomes once another call is made
Previous ==
    IF last.op = "updateFromProof" /\ last.result = "ok"
    THEN <<[proof |-> last.arg, countBefore |-> last.pre.updateCount]>>
    ELSE << >>

\* updateChecks without the check that updates are accepted
updateChecksIgnoringPause(sender, proof) ==
    IF ~verifyEVMTransaction(proof) THEN [ok |-> FALSE, err |-> "Invalid FDC proof"]
    ELSE IF proof.data.responseBody.receivingAddress # priceRecorderAddress
         THEN [ok |-> FALSE, err |-> "Wrong contract address"]
    ELSE IF proof.data.responseBody.status # 1
         THEN [ok |-> FALSE, err |-> "Transaction failed"]
    ELSE _parseEvents(proof.data.responseBody.events)

\* updateChecks restricted to the owner
updateChecksOnlyOwner(sender, proof) ==
    IF sender # owner THEN [ok |-> FALSE, err |-> "Not owner"]
    ELSE IF ~acceptingUpdates THEN [ok |-> FALSE, err |-> "Updates paused"]
    ELSE IF ~verifyEVMTransaction(proof) THEN [ok |-> FALSE, err |-> "Invalid FDC proof"]
    ELSE IF proof.data.responseBody.receivingAddress # priceRecorderAddress
         THEN [ok |-> FALSE, err |-> "Wrong contract address"]
    ELSE IF proof.data.responseBody.status # 1
         THEN [ok |-> FALSE, err |-> "Transaction failed"]
    ELSE _parseEvents(proof.data.responseBody.events)

\* updateChecks comparing the receiving address before verifying the proof
updateChecksAddressFirst(sender, proof) ==
    IF ~acceptingUpdates THEN [ok |-> FALSE, err |-> "Updates paused"]
    ELSE IF proof.data.responseBody.receivingAddress # priceRecorderAddress
         THEN [ok |-> FALSE, err |-> "Wrong contract address"]
    ELSE IF ~verifyEVMTransaction(proof) THEN [ok |-> FALSE, err |-> "Invalid FDC proof"]
    ELSE IF proof.data.responseBody.status # 1
         THEN [ok |-> FALSE, err |-> "Transaction failed"]
    ELSE _parseEvents(proof.data.responseBody.events)

\* updateChecks without the check of the source transaction's status
updateChecksIgnoringStatus(sender, proof) ==
    IF ~acceptingUpdates THEN [ok |-> FALSE, err |-> "Updates paused"]
    ELSE IF ~verifyEVMTransaction(proof) THEN [ok |-> FALSE, err |-> "Invalid FDC proof"]
    ELSE IF proof.data.responseBody.receivingAddress # priceRecorderAddress
         THEN [ok |-> FALSE, err |-> "Wrong contract address"]
    ELSE _parseEvents(proof.data.responseBody.events)

\* updateFromProof, steps 1 to 4: the revert reason, or "ok" with the price
\* and timestamp parsed from the proof's events
updateChecks(sender, proof) ==
    IF ~acceptingUpdates THEN [ok |-> FALSE, err |-> "Updates paused"]
    ELSE IF ~verifyEVMTransaction(proof) THEN [ok |-> FALSE, err |-> "Invalid FDC proof"]
    ELSE IF proof.data.responseBody.receivingAddress # priceRecorderAddress
         THEN [ok |-> FALSE, err |-> "Wrong contract address"]
    ELSE IF proof.data.responseBody.status # 1
         THEN [ok |-> FALSE, err |-> "Transaction failed"]
    ELSE _parseEvents(proof.data.responseBody.events)

\* updateEffect storing a proof only the first time it is accepted
updateEffectOncePerProof(sender, proof) ==
    LET out == updateChecks(sender, proof) IN
    IF out.ok /\ proof \notin acceptedProofs
    THEN [result |-> "ok",
          latestValue |-> out.price,
          lastUpdateTimestamp |-> out.timestamp,
          updateCount |-> updateCount + 1,
          totalProofsVerified |-> totalProofsVerified + 1]
    ELSE [result |-> IF out.ok THEN "ok" ELSE out.err,
          latestValue |-> latestValue,
          lastUpdateTimestamp |-> lastUpdateTimestamp,
          updateCount |-> updateCount,
          totalProofsVerified |-> totalProofsVerified]

\* updateEffect keeping the stored price when the proof's event is older
updateEffectNewestWins(sender, proof) ==
    LET out == updateChecks(sender, proof) IN
    IF out.ok
    THEN [result |-> "ok",
          latestValue |-> IF Less(out.timestamp, lastUpdateTimestamp)
                          THEN latestValue ELSE out.price,
          lastUpdateTimestamp |-> IF Less(out.timestamp, lastUpdateTimestamp)
                                  THEN lastUpdateTimestamp ELSE out.timestamp,
          updateCount |-> updateCount + 1,
          totalProofsVerified |-> totalProofsVerified + 1]
    ELSE [result |-> out.err,
          latestValue |-> latestValue,
          lastUpdateTimestamp |-> lastUpdateTimestamp,
          updateCount |-> updateCount,
          totalProofsVerified |-> totalProofsVerified]

\* updateEffect counting the proofs submitted, not the proofs verified
updateEffectCountsAttempts(sender, proof) ==
    LET out == updateChecks(sender, proof) IN
    IF out.ok
    THEN [result |-> "ok",
          latestValue |-> out.price,
          lastUpdateTimestamp |-> out.timestamp,
          updateCount |-> updateCount + 1,
          totalProofsVerified |-> totalProofsVerified + 1]
    ELSE [result |-> out.err,
          latestValue |-> latestValue,
          lastUpdateTimestamp |-> lastUpdateTimestamp,
          updateCount |-> updateCount,
          totalProofsVerified |-> totalProofsVerified + 1]

\* updateFromProof(_proof) sent by sender: the result reported and the
\* storage it leaves (a revert leaves the storage as it was)
updateEffect(sender, proof) ==
    LET out == updateChecks(sender, proof) IN
    IF out.ok
    THEN [result |-> "ok",
          latestValue |-> out.price,
          lastUpdateTimestamp |-> out.timestamp,
          updateCount |-> updateCount + 1,
          totalProofsVerified |-> totalProofsVerified + 1]
    ELSE [result |-> out.err,
          latestValue |-> latestValue,
          lastUpdateTimestamp |-> lastUpdateTimestamp,
          updateCount |-> updateCount,
          totalProofsVerified |-> totalProofsVerified]

updateFromProof(sender, proof) ==
    /\ updateCount < MaxUpdates
    /\ LET eff == updateEffect(sender, proof) IN
       /\ latestValue' = eff.latestValue
       /\ lastUpdateTimestamp' = eff.lastUpdateTimestamp
       /\ updateCount' = eff.updateCount
       /\ totalProofsVerified' = eff.totalProofsVerified
       /\ last' = Call("updateFromProof", sender, proof, eff.result)
       /\ acceptedProofs' = IF eff.result = "ok" THEN acceptedProofs \cup {proof}
                            ELSE acceptedProofs
    /\ previousAccepted' = Previous
    /\ UNCHANGED <<fixed, owner, acceptingUpdates>>

\* ------------------------------------------------------------------------
\* Admin functions
\* ------------------------------------------------------------------------

\* modifier onlyOwner
onlyOwner(sender) == sender = owner

\* pauseUpdates also clearing the stored price
pauseUpdatesClearing(sender) ==
    /\ IF onlyOwner(sender)
       THEN /\ acceptingUpdates' = FALSE
            /\ latestValue' = Zero
            /\ last' = Call("pauseUpdates", sender, NoArg, "ok")
       ELSE /\ UNCHANGED <<acceptingUpdates, latestValue>>
            /\ last' = Call("pauseUpdates", sender, NoArg, "Not owner")
    /\ previousAccepted' = Previous
    /\ UNCHANGED <<fixed, owner, lastUpdateTimestamp, updateCount,
                   totalProofsVerified, acceptedProofs>>

pauseUpdates(sender) ==
    /\ IF onlyOwner(sender)
       THEN /\ acceptingUpdates' = FALSE
            /\ last' = Call("pauseUpdates", sender, NoArg, "ok")
       ELSE /\ UNCHANGED acceptingUpdates
            /\ last' = Call("pauseUpdates", sender, NoArg, "Not owner")
    /\ previousAccepted' = Previous
    /\ UNCHANGED <<fixed, owner, oracle, acceptedProofs>>

resumeUpdates(sender) ==
    /\ IF onlyOwner(sender)
       THEN /\ acceptingUpdates' = TRUE
            /\ last' = Call("resumeUpdates", sender, NoArg, "ok")
       ELSE /\ UNCHANGED acceptingUpdates
            /\ last' = Call("resumeUpdates", sender, NoArg, "Not owner")
    /\ previousAccepted' = Previous
    /\ UNCHANGED <<fixed, owner, oracle, acceptedProofs>>

transferOwnership(sender, newOwner) ==
    /\ IF ~onlyOwner(sender)
       THEN /\ UNCHANGED owner
            /\ last' = Call("transferOwnership", sender, newOwner, "Not owner")
       ELSE IF newOwner = ZeroAddress
       THEN /\ UNCHANGED owner
            /\ last' = Call("transferOwnership", sender, newOwner, "Invalid address")
       ELSE /\ owner' = newOwner
            /\ last' = Call("transferOwnership", sender, newOwner, "ok")
    /\ previousAccepted' = Previous
    /\ UNCHANGED <<fixed, acceptingUpdates, oracle, acceptedProofs>>

\* ------------------------------------------------------------------------
\* IICustomFeed reads
\* ------------------------------------------------------------------------

\* read() refusing to answer while updates are paused
readOutcomeWhilePaused ==
    IF ~acceptingUpdates THEN [ok |-> FALSE, err |-> "Updates paused"]
    ELSE IF ~Less(Zero, latestValue)
      THEN [ok |-> FALSE, err |-> "No data available"]
    ELSE [ok |-> TRUE, err |-> "", value |-> latestValue]

\* read(): the value returned, or the revert reason
readOutcome ==
    IF ~Less(Zero, latestValue) THEN [ok |-> FALSE, err |-> "No data available"]
    ELSE [ok |-> TRUE, err |-> "", value |-> latestValue]

\* getCurrentFeed(): (_value, _decimals, _timestamp), or the revert reason
getCurrentFeedOutcome ==
    IF ~Less(Zero, latestValue) THEN [ok |-> FALSE, err |-> "No data available"]
    ELSE [ok |-> TRUE, err |-> "",
          value |-> <<latestValue, DECIMALS, lastUpdateTimestamp>>]

read(sender) ==
    /\ last' = Call("read", sender, NoArg,
                    IF readOutcome.ok THEN "ok" ELSE readOutcome.err)
    /\ previousAccepted' = Previous
    /\ UNCHANGED <<fixed, storage, acceptedProofs>>

getCurrentFeed(sender) ==
    /\ last' = Call("getCurrentFeed", sender, NoArg,
                    IF getCurrentFeedOutcome.ok THEN "ok" ELSE getCurrentFeedOutcome.err)
    /\ previousAccepted' = Previous
    /\ UNCHANGED <<fixed, storage, acceptedProofs>>

\* ------------------------------------------------------------------------
\* Specification
\* ------------------------------------------------------------------------

Next ==
    \/ \E sender \in Callers, proof \in Proofs : updateFromProof(sender, proof)
    \/ \E sender \in Callers : pauseUpdates(sender)
    \/ \E sender \in Callers : resumeUpdates(sender)
    \/ \E sender \in Callers, newOwner \in Callers \cup {ZeroAddress} :
          transferOwnership(sender, newOwner)
    \/ \E sender \in Callers : read(sender)
    \/ \E sender \in Callers : getCurrentFeed(sender)

Spec == Init /\ [][Next]_vars

\* ------------------------------------------------------------------------
\* Properties of updateFromProof
\* ------------------------------------------------------------------------

IsUpdate(call)   == call.op = "updateFromProof"
Accepted(call)   == IsUpdate(call) /\ call.result = "ok"
Rejected(call)   == IsUpdate(call) /\ call.result # "ok"
Body(proof)      == proof.data.responseBody

\* event i of the proof is a PriceRecorded event of the configured recorder
FromRecorder(proof, i) ==
    LET evt == Body(proof).events[i] IN
    /\ evt.emitterAddress = priceRecorderAddress
    /\ Len(evt.topics) > 0
    /\ evt.topics[1] = PRICE_RECORDED_TOPIC

\* ... whose indexed pool is the configured pool
ForConfiguredPool(proof, i) ==
    /\ FromRecorder(proof, i)
    /\ Len(Body(proof).events[i].topics) >= 2
    /\ Body(proof).events[i].topics[2] = poolAddress

\* the price the configured feed computes from event i
PriceOfEvent(proof, i) ==
    priceOf[Body(proof).events[i].data[1]]

\* the proof passed FDC verification, was received by the configured
\* recorder, and latestValue is the price of one of its PriceRecorded
\* events of the configured recorder for the configured pool
DerivedFrom(proof) ==
    /\ verifyEVMTransaction(proof)
    /\ Body(proof).receivingAddress = priceRecorderAddress
    /\ \E i \in 1..Len(Body(proof).events) :
          /\ ForConfiguredPool(proof, i)
          /\ Len(Body(proof).events[i].data) = 7
          /\ PriceOfEvent(proof, i).ok
          /\ latestValue = PriceOfEvent(proof, i).value

\* the proof references another contract or another pool: it was not
\* received by the configured recorder, or none of its events is a
\* PriceRecorded event of the configured recorder for the configured pool
ReferencesOther(proof) ==
    \/ Body(proof).receivingAddress # priceRecorderAddress
    \/ \A i \in 1..Len(Body(proof).events) : ~ForConfiguredPool(proof, i)

OracleUnchangedByLast ==
    /\ latestValue = last.pre.latestValue
    /\ lastUpdateTimestamp = last.pre.lastUpdateTimestamp
    /\ updateCount = last.pre.updateCount
    /\ totalProofsVerified = last.pre.totalProofsVerified

\* C1: every stored price was computed from a PriceRecorded event of the
\* configured recorder for the configured pool, carried in an accepted proof
\* that passed FDC verification and was received by the configured recorder;
\* a proof referencing another pool or contract leaves the oracle unchanged.
C1_PriceFromConfiguredSource ==
    /\ \A p \in acceptedProofs :
          /\ verifyEVMTransaction(p)
          /\ Body(p).receivingAddress = priceRecorderAddress
          /\ ~ReferencesOther(p)
    /\ updateCount > 0 => \E p \in acceptedProofs : DerivedFrom(p)
    /\ updateCount = 0 => latestValue = Zero /\ acceptedProofs = {}
    /\ IsUpdate(last) /\ ReferencesOther(last.arg) =>
          Rejected(last) /\ OracleUnchangedByLast

\* a proof for another pool was submitted after a price had been stored
C1_Witness ==
    /\ updateCount > 0
    /\ IsUpdate(last)
    /\ verifyEVMTransaction(last.arg)
    /\ Body(last.arg).receivingAddress = priceRecorderAddress
    /\ Body(last.arg).status = 1
    /\ Body(last.arg).events = <<EvWrongPool>>

\* C2: a rejected updateFromProof call leaves latestValue,
\* lastUpdateTimestamp, updateCount and totalProofsVerified as they were.
C2_RejectedLeavesStateUnchanged ==
    [][Rejected(last') => UNCHANGED oracle]_vars

\* a call was rejected because no PriceRecorded event was found, after a
\* price had been stored
C2_Witness ==
    /\ Rejected(last)
    /\ last.result = "PriceRecorded event not found"
    /\ updateCount > 0
    /\ OracleUnchangedByLast

\* C3: a proof whose source-transaction status is not 1 is rejected, also
\* when the verifier accepts it and receiving address, event and pool match.
C3_FailedTransactionRejected ==
    IsUpdate(last) /\ Body(last.arg).status # 1 =>
        /\ Rejected(last)
        /\ OracleUnchangedByLast
        /\ (acceptingUpdates /\ verifyEVMTransaction(last.arg)
              /\ Body(last.arg).receivingAddress = priceRecorderAddress
            => last.result = "Transaction failed")

\* a verified proof of a failed recording, matching in all else, was rejected
C3_Witness ==
    /\ IsUpdate(last)
    /\ acceptingUpdates
    /\ verifyEVMTransaction(last.arg)
    /\ Body(last.arg).receivingAddress = priceRecorderAddress
    /\ Body(last.arg).status = 0
    /\ Body(last.arg).events = <<EvGood1>>
    /\ last.result = "Transaction failed"

\* the first event of the proof that is a PriceRecorded event of the recorder
FirstRecorded(proof) ==
    CHOOSE i \in 1..Len(Body(proof).events) :
        /\ FromRecorder(proof, i)
        /\ \A j \in 1..(i - 1) : ~FromRecorder(proof, j)

\* C4 as it was claimed: updateCount is the number of distinct proofs
\* accepted, so that accepting a proof again changes nothing.
C4_Original ==
    updateCount = Cardinality(acceptedProofs)

\* C4: the oracle state is mutated exactly once per accepted call: an accepted
\* updateFromProof increases updateCount by one and stores that proof's price
\* and timestamp, no other step changes them, and a proof accepted before is
\* rejected later only because updates are paused.
C4_OncePerAcceptedCall ==
    /\ [](Rejected(last) /\ last.arg \in acceptedProofs
            => last.result = "Updates paused")
    /\ [][IF Accepted(last')
          THEN /\ updateCount' = updateCount + 1
               /\ latestValue' = PriceOfEvent(last'.arg, FirstRecorded(last'.arg)).value
               /\ lastUpdateTimestamp' =
                    Body(last'.arg).events[FirstRecorded(last'.arg)].data[6]
          ELSE UNCHANGED <<latestValue, lastUpdateTimestamp, updateCount>>]_vars

\* a proof has been accepted a second time
C4_Witness ==
    /\ Accepted(last)
    /\ updateCount > Cardinality(acceptedProofs)

\* C5: two successive successful updates with distinct proofs increase
\* updateCount by 2 and leave the second proof's price and event timestamp,
\* also when the second event is the older one.
C5_SecondProofWins ==
    (previousAccepted # << >> /\ Accepted(last)
        /\ last.arg # previousAccepted[1].proof)
    => /\ updateCount = previousAccepted[1].countBefore + 2
       /\ latestValue = PriceOfEvent(last.arg, FirstRecorded(last.arg)).value
       /\ lastUpdateTimestamp =
            Body(last.arg).events[FirstRecorded(last.arg)].data[6]

\* the second of two successive accepted proofs carries the older timestamp
C5_Witness ==
    /\ previousAccepted # << >>
    /\ Accepted(last)
    /\ last.arg # previousAccepted[1].proof
    /\ Less(lastUpdateTimestamp, last.pre.lastUpdateTimestamp)

\* C6: only a successful updateFromProof changes latestValue,
\* lastUpdateTimestamp or updateCount, and the configuration fixed at
\* creation never changes.
C6_OnlyUpdateMutates ==
    [][/\ (<<latestValue, lastUpdateTimestamp, updateCount>>'
             # <<latestValue, lastUpdateTimestamp, updateCount>>
           => Accepted(last'))
       /\ config' = config]_vars

\* the owner paused the feed after a price had been stored
C6_Witness ==
    /\ last.op = "pauseUpdates"
    /\ last.result = "ok"
    /\ updateCount > 0
    /\ OracleUnchangedByLast

\* C7: while acceptingUpdates is false no updateFromProof succeeds, and
\* acceptingUpdates becomes true again only by a successful resumeUpdates.
C7_PausedRejectsAll ==
    [][/\ (~acceptingUpdates => ~Accepted(last') /\ UNCHANGED oracle)
       /\ (~acceptingUpdates /\ acceptingUpdates'
             => last'.op = "resumeUpdates" /\ last'.result = "ok")]_vars

\* a proof that is valid in every respect was rejected on a paused feed
C7_Witness ==
    /\ ~acceptingUpdates
    /\ IsUpdate(last)
    /\ last.arg = Proof(ValidPath, Recorder, 1, <<EvGood2>>)
    /\ last.result = "Updates paused"

\* C8: the outcome of updateFromProof does not depend on the caller.
C8_CallerIndependent ==
    \A proof \in Proofs : \A a, b \in Callers :
        updateEffect(a, proof) = updateEffect(b, proof)

\* a caller that is neither the owner nor the deployer committed a proof
C8_Witness ==
    /\ Accepted(last)
    /\ last.sender # owner
    /\ last.sender # Alice

\* C9: the preconditions are evaluated in the order paused, FDC validity,
\* receiving address, transaction status, event search with pool check, and
\* the rejection reported is that of the first one violated.
C9_FirstViolationReported ==
    IsUpdate(last) =>
        LET p == last.arg IN
        IF ~acceptingUpdates THEN last.result = "Updates paused"
        ELSE IF ~verifyEVMTransaction(p) THEN last.result = "Invalid FDC proof"
        ELSE IF Body(p).receivingAddress # priceRecorderAddress
             THEN last.result = "Wrong contract address"
        ELSE IF Body(p).status # 1 THEN last.result = "Transaction failed"
        ELSE IF \A i \in 1..Len(Body(p).events) : ~FromRecorder(p, i)
             THEN last.result = "PriceRecorded event not found"
        ELSE IF /\ Len(Body(p).events[FirstRecorded(p)].topics) >= 2
                /\ Body(p).events[FirstRecorded(p)].topics[2] # poolAddress
             THEN last.result = "Wrong pool"
        ELSE last.result \notin
               {"Updates paused", "Invalid FDC proof", "Wrong contract address",
                "Transaction failed", "PriceRecorded event not found", "Wrong pool"}

\* an unverifiable proof with a wrong receiving address and a failed
\* transaction was rejected as an invalid proof
C9_Witness ==
    /\ IsUpdate(last)
    /\ acceptingUpdates
    /\ ~verifyEVMTransaction(last.arg)
    /\ Body(last.arg).receivingAddress # priceRecorderAddress
    /\ Body(last.arg).status # 1
    /\ last.result = "Invalid FDC proof"

\* C10: latestValue is 0 exactly when updateCount is 0 and otherwise lies
\* strictly between 0 and 2^128; a zero or oversized price is rejected and
\* never stored.
C10_StoredPriceInRange ==
    /\ (latestValue = Zero) <=> (updateCount = 0)
    /\ updateCount > 0 => Less(Zero, latestValue) /\ Less(latestValue, Pow2(128))
    /\ \A s \in SqrtValues :
          priceOf[s].ok => Less(Zero, priceOf[s].value)
                           /\ Less(priceOf[s].value, Pow2(128))
    /\ (IsUpdate(last)
          /\ last.result \in {"Price must be positive", "Price exceeds maximum"})
       => OracleUnchangedByLast

\* a recording whose price computes to zero was rejected after a price had
\* been stored
C10_Witness ==
    /\ IsUpdate(last)
    /\ last.result = "Price must be positive"
    /\ Less(Zero, latestValue)

\* ------------------------------------------------------------------------
\* Off-chain price calculations (JavaScript BigInt: no overflow)
\* ------------------------------------------------------------------------

\* number of significant bits of a
BitLen(a) ==
    IF a = Zero THEN 0
    ELSE 8 * (Len(a) - 1)
           + (CHOOSE k \in 1..8 : 2 ^ (k - 1) <= a[Len(a)] /\ a[Len(a)] < 2 ^ k)

\* Number(bigint): the nearest double, ties to even (53 significant bits)
ToNumber(a) ==
    IF BitLen(a) <= 53 THEN a
    ELSE LET shift == BitLen(a) - 53
             q     == Div(a, Pow2(shift))
             r     == Sub(a, Mul(q, Pow2(shift)))
             half  == Pow2(shift - 1)
             up    == Less(half, r) \/ (r = half /\ q[1] % 2 = 1)
         IN  Mul(IF up THEN Add(q, <<1>>) ELSE q, Pow2(shift))

\* the BigInt part shared by the two off-chain functions, up to the scaling
\* to 6 decimals
OffChainPrice6(sqrtPriceX96, t0Decimals, t1Decimals) ==
    LET Q96         == Pow2(96)
        numerator   == Mul(Mul(sqrtPriceX96, sqrtPriceX96), Pow10(18))
        denominator == Mul(Q96, Q96)
        price18     == Div(numerator, denominator)
        decimalAdjustment == t0Decimals - t1Decimals
        adjusted    == IF decimalAdjustment > 0
                         THEN Mul(price18, Pow10(decimalAdjustment))
                       ELSE IF decimalAdjustment < 0
                         THEN Div(price18, Pow10(-decimalAdjustment))
                       ELSE price18
    IN  Div(adjusted, Pow10(12))

\* CustomFeedsBot.calculatePrice: (Number(price) / 1e6).toFixed(6), carried
\* as the number of millionths the decimal string denotes
calculatePrice(sqrtPriceX96, poolConfig) ==
    LET price6 == OffChainPrice6(sqrtPriceX96, poolConfig.token0Decimals,
                                 poolConfig.token1Decimals)
        price  == IF poolConfig.invertPrice /\ Less(Zero, price6)
                    THEN Div(Pow10(12), price6)
                  ELSE price6
    IN  Ok(ToNumber(price))

RangeError == "RangeError: Division by zero"

\* price-utils sqrtPriceX96ToPrice: Number(price) / 1e6, carried as the
\* number of millionths; the inversion divides without testing for zero
sqrtPriceX96ToPrice(sqrtPriceX96, t0Decimals, t1Decimals, invert) ==
    LET price6 == OffChainPrice6(sqrtPriceX96, t0Decimals, t1Decimals)
    IN  IF invert
          THEN IF price6 = Zero THEN Revert(RangeError)
               ELSE Ok(ToNumber(Div(Pow10(12), price6)))
        ELSE Ok(ToNumber(price6))

\* ------------------------------------------------------------------------
\* Price calculations applied to chosen inputs
\* ------------------------------------------------------------------------

\* the largest sqrtPriceX96 below 2^128 / 10^9
SqrtEdge == Div(Pow2(128), Pow10(9))

\* sqrtPriceX96 inputs (uint160)
SqrtInputs ==
    { Zero, <<1>>, Pow2(48), Pow2(66), Pow2(80), Pow2(87), Pow2(95), SqrtOne,
      Mul(<<3>>, Pow2(95)), SqrtFour, Pow2(98), SqrtEdge, Add(SqrtEdge, <<1>>),
      Pow2(99), Pow2(106), SqrtHuge, Pow2(150), Sub(Pow2(160), <<1>>) }

\* sqrtPriceX96 inputs compared pairwise
CompareSqrt ==
    { Pow2(66), Pow2(80), Pow2(87), Pow2(95), SqrtOne, Mul(<<3>>, Pow2(95)),
      SqrtEdge, Pow2(99) }

\* <<token0Decimals, token1Decimals>> inputs
DecimalPairs == { <<18, 18>>, <<6, 6>>, <<18, 6>>, <<6, 18>>, <<8, 6>>, <<18, 1>> }

\* <<token0Decimals, token1Decimals>> of the pairwise comparisons
CompareDecimals == { <<18, 18>>, <<18, 6>>, <<8, 6>>, <<6, 18>> }

\* 6-decimal prices the inversion step is applied to
InvertInputs ==
    { Zero, <<1>>, <<3>>, <<7>>, FromInt(1000), FromInt(999999), Pow10(6),
      FromInt(1000001), FromInt(3000000), Sub(Pow10(12), <<1>>), Pow10(12),
      Add(Pow10(12), <<1>>), Pow10(18) }

PriceInputs ==
    { [op |-> "calculate", sqrtPriceX96 |-> s, sqrtPriceX96b |-> s,
       token0Decimals |-> d[1], token1Decimals |-> d[2], invertPrice |-> inv] :
        s \in SqrtInputs, d \in DecimalPairs, inv \in BOOLEAN }
    \cup
    { [op |-> "compare", sqrtPriceX96 |-> p[1], sqrtPriceX96b |-> p[2],
       token0Decimals |-> d[1], token1Decimals |-> d[2], invertPrice |-> inv] :
        p \in { q \in CompareSqrt \X CompareSqrt : Less(q[1], q[2]) },
        d \in CompareDecimals, inv \in BOOLEAN }
    \cup
    { [op |-> "invert", sqrtPriceX96 |-> x, sqrtPriceX96b |-> x,
       token0Decimals |-> 18, token1Decimals |-> 18, invertPrice |-> TRUE] :
        x \in InvertInputs }

PriceInit ==
    \E i \in PriceInputs :
        /\ priceInput = i
        /\ priceOutput = NoPriceOutput
        /\ Deploy(<<Recorder, PoolA, FeedName, "fdcVerification",
                    i.token0Decimals, i.token1Decimals, i.invertPrice>>, {})
        /\ BotConstructed
        /\ DashMounted
        /\ RecorderIdle
        /\ FormatIdle

poolConfigOf(i) ==
    [token0Decimals |-> i.token0Decimals, token1Decimals |-> i.token1Decimals,
     invertPrice |-> i.invertPrice]

\* one sqrtPriceX96 given to the contract and to the two off-chain functions
Calculate ==
    /\ priceInput.op = "calculate"
    /\ priceOutput = NoPriceOutput
    /\ priceOutput' =
         [contract |-> _calculatePrice(priceInput.sqrtPriceX96, token0Decimals,
                                       token1Decimals, invertPrice),
          bot      |-> calculatePrice(priceInput.sqrtPriceX96,
                                      poolConfigOf(priceInput)),
          utils    |-> sqrtPriceX96ToPrice(priceInput.sqrtPriceX96,
                                           priceInput.token0Decimals,
                                           priceInput.token1Decimals,
                                           priceInput.invertPrice)]
    /\ UNCHANGED <<feed, priceInput, bot, dash, priceRecorder, format>>

\* two sqrtPriceX96, the first the smaller, under the same settings
Compare ==
    /\ priceInput.op = "compare"
    /\ priceOutput = NoPriceOutput
    /\ priceOutput' =
         [contract  |-> _calculatePrice(priceInput.sqrtPriceX96, token0Decimals,
                                        token1Decimals, invertPrice),
          contractb |-> _calculatePrice(priceInput.sqrtPriceX96b, token0Decimals,
                                        token1Decimals, invertPrice),
          bot       |-> calculatePrice(priceInput.sqrtPriceX96,
                                       poolConfigOf(priceInput)),
          botb      |-> calculatePrice(priceInput.sqrtPriceX96b,
                                       poolConfigOf(priceInput))]
    /\ UNCHANGED <<feed, priceInput, bot, dash, priceRecorder, format>>

\* the contract's inversion step applied to a 6-decimal price, then its
\* requires, and the inversion step applied again
InvertTwice ==
    /\ priceInput.op = "invert"
    /\ priceOutput = NoPriceOutput
    /\ LET once == invertStep(Ok(priceInput.sqrtPriceX96), invertPrice)
       IN  priceOutput' = [once    |-> once,
                           checked |-> sanityChecks(once),
                           twice   |-> invertStep(once, invertPrice)]
    /\ UNCHANGED <<feed, priceInput, bot, dash, priceRecorder, format>>

PriceNext == Calculate \/ Compare \/ InvertTwice

PriceSpec == PriceInit /\ [][PriceNext]_vars


\* ------------------------------------------------------------------------
\* Properties of the price calculations
\* ------------------------------------------------------------------------

\* the calculation of kind op has been applied
PriceDone(op) == priceInput.op = op /\ priceOutput # NoPriceOutput

\* floor(sqrtPriceX96^2 * 10^6 / 2^192) in unbounded arithmetic
ExactScaled(sqrtPriceX96) ==
    Div(Mul(Mul(sqrtPriceX96, sqrtPriceX96), Pow10(6)), Pow2(192))

InOpenRange(x) == Less(Zero, x) /\ Less(x, Pow2(128))

\* C11: with equal token decimals and no inversion, for every sqrtPriceX96
\* whose exact result floor(sqrtPriceX96^2 * 10^6 / 2^192) lies in (0, 2^128),
\* _calculatePrice returns exactly that value and does not revert.
C11_ExactScaledPrice ==
    (/\ PriceDone("calculate")
     /\ token0Decimals = token1Decimals
     /\ ~invertPrice
     /\ InOpenRange(ExactScaled(priceInput.sqrtPriceX96)))
    => /\ priceOutput.contract.ok
       /\ priceOutput.contract.value = ExactScaled(priceInput.sqrtPriceX96)

\* a result is one the price computation accepts: positive and below 2^128
AcceptedPrice(r) == r.ok /\ InOpenRange(r.value)

\* C12: for fixed token decimals and inversion flag, over the inputs the
\* computation accepts, a larger sqrtPriceX96 never yields a smaller price
\* with inversion off and never yields a larger price with inversion on.
C12_MonotonicInSqrtPrice ==
    PriceDone("compare") =>
        /\ (priceOutput.contract.ok /\ priceOutput.contractb.ok)
           => IF invertPrice
                THEN Leq(priceOutput.contractb.value, priceOutput.contract.value)
              ELSE Leq(priceOutput.contract.value, priceOutput.contractb.value)
        /\ (AcceptedPrice(priceOutput.bot) /\ AcceptedPrice(priceOutput.botb))
           => IF priceInput.invertPrice
                THEN Leq(priceOutput.botb.value, priceOutput.bot.value)
              ELSE Leq(priceOutput.bot.value, priceOutput.botb.value)

\* two accepted inputs under inversion, the larger one priced strictly lower
C12_Witness ==
    /\ PriceDone("compare")
    /\ invertPrice
    /\ Less(priceInput.sqrtPriceX96, priceInput.sqrtPriceX96b)
    /\ priceOutput.contract.ok /\ priceOutput.contractb.ok
    /\ Less(priceOutput.contractb.value, priceOutput.contract.value)

\* C13: the inversion step x -> 10^12 / x is not an involution: for some
\* positive 6-decimal price inverting twice does not give it back; and
\* inverting any x above 10^12 gives 0, which the contract then rejects as a
\* non-positive price.
C13_InversionNotInvolution ==
    /\ \E x \in InvertInputs :
          LET once == invertStep(Ok(x), TRUE)
          IN  /\ Less(Zero, x)
              /\ Less(Zero, once.value)
              /\ invertStep(once, TRUE).value # x
    /\ (PriceDone("invert") /\ Less(Pow10(12), priceInput.sqrtPriceX96))
       => /\ priceOutput.once = Ok(Zero)
          /\ priceOutput.checked = Revert("Price must be positive")

\* a price above 10^12 has been inverted and rejected
C13_Witness ==
    /\ PriceDone("invert")
    /\ Less(Pow10(12), priceInput.sqrtPriceX96)
    /\ ~priceOutput.checked.ok

\* C14: the bot's calculatePrice and price-utils' sqrtPriceX96ToPrice are
\* defined on exactly the inputs on which the contract's _calculatePrice does
\* not revert, and there they produce the contract's 6-decimal integer.
C14_OffChainMatchesContract ==
    PriceDone("calculate") =>
        /\ priceOutput.bot.ok <=> priceOutput.contract.ok
        /\ priceOutput.utils.ok <=> priceOutput.contract.ok
        /\ priceOutput.contract.ok
           => /\ priceOutput.bot.value = priceOutput.contract.value
              /\ priceOutput.utils.value = priceOutput.contract.value

\* ------------------------------------------------------------------------
\* CustomFeedsBot: the main loop, tryRecordPrice and tryAttest
\* ------------------------------------------------------------------------

MAX_ATTESTATION_RETRIES == 2
CircuitBreakerThreshold == 10
BalanceCheckEvery       == 10

\* bound on the number of cycles explored
MaxCycles == 10

\* voting rounds the relay may report for a request
RoundIds == {1, 2}

Goto(newPc, name, result) ==
    /\ pc' = newPc
    /\ step' = [name |-> name, result |-> result]

TraceEntry(name, txHash, votingRoundId) ==
    [step |-> name, txHash |-> txHash, votingRoundId |-> votingRoundId]

\* stop() followed by process.exit(code)
StopAndExit(code, name, result) ==
    /\ isRunning' = FALSE
    /\ exitCode' = code
    /\ Goto("exited", name, result)

\* start(): initialize(), then isRunning = true; an initialize() that
\* throws ends the process through main().catch
start ==
    /\ pc = "constructed"
    /\ \E initialized \in BOOLEAN :
          IF initialized
            THEN /\ isRunning' = TRUE
                 /\ Goto("loop", "initialize", "ok")
                 /\ UNCHANGED exitCode
          ELSE /\ exitCode' = 1
               /\ Goto("exited", "initialize", "throws")
               /\ UNCHANGED isRunning
    /\ UNCHANGED <<outsideBot, committed, balanceFLR, gasPriceGwei, cycleCount,
                   currentPoolIndex, stats,
                   selection, recordingResult, attempt, fdc, timerArmed,
                   trace, inProgress>>

\* a selection that leaves the index where it is
getNextPoolToProcessNoAdvance(index) ==
    [poolConfig |-> POOLS[index + 1], currentPoolIndex |-> index]

\* getNextPoolToProcess: the first turn of its loop returns the pool at the
\* index and moves the index on
getNextPoolToProcess(index) ==
    [poolConfig |-> POOLS[index + 1],
     currentPoolIndex |-> (index + 1) % Len(POOLS)]

\* the last Len(POOLS) selections, the newest last
Selected(poolConfig, cycle) ==
    LET all == Append(selections, [poolConfig |-> poolConfig, cycle |-> cycle])
    IN  IF Len(all) > Len(POOLS) THEN Tail(all) ELSE all

\* CONFIG.CRITICAL_BALANCE_FLR (0.1) and CONFIG.MIN_BALANCE_FLR (1.0), in
\* hundredths of FLR
CRITICAL_BALANCE_FLR == 10
MIN_BALANCE_FLR      == 100

\* checkBalance: balanceFLR, the Number computed from the balance read, in
\* hundredths of FLR
BalanceAnswers == {5, 10, 100}

\* a low balance treated as a critical one
isCriticalBelowMin(balance) == balance < MIN_BALANCE_FLR

\* checkBalance: balanceFLR < CRITICAL_BALANCE_FLR
isCritical(balance) == balance < CRITICAL_BALANCE_FLR

\* checkBalance: balanceFLR < MIN_BALANCE_FLR, in the else branch
isLow(balance) == balance < MIN_BALANCE_FLR

\* start: getNextPoolToProcess() and what follows it in the pass
selectPool(result) ==
    /\ LET next == getNextPoolToProcess(currentPoolIndex)
       IN  /\ cyclePoolConfig' = next.poolConfig
           /\ currentPoolIndex' = next.currentPoolIndex
           /\ selections' = Selected(next.poolConfig, cycleCount')
    /\ Goto("canUpdate", "getNextPoolToProcess", result)
    /\ UNCHANGED <<isRunning, exitCode>>

\* top of the while loop: cycleCount++, checkBalance(), which reads the
\* balance on every tenth cycle, then getNextPoolToProcess()
nextCycle ==
    /\ pc = "loop"
    /\ isRunning
    /\ cycleCount < MaxCycles
    /\ cycleCount' = cycleCount + 1
    /\ IF cycleCount' % BalanceCheckEvery # 0
         THEN /\ selectPool("ok")
              /\ UNCHANGED balanceFLR
       ELSE \/ \E balance \in BalanceAnswers :
                 /\ balanceFLR' = balance
                 /\ IF isCritical(balance)
                      THEN /\ StopAndExit(1, "checkBalance", "critical")
                           /\ UNCHANGED <<currentPoolIndex, selection>>
                    ELSE selectPool(IF isLow(balance) THEN "low balance"
                                    ELSE "ok")
            \/ \* getBalance throws: caught by the main loop, which goes
               \* round without waiting
               /\ Goto("loop", "checkBalance", "throws")
               /\ UNCHANGED <<isRunning, exitCode, currentPoolIndex,
                              selection, balanceFLR>>
    /\ recordingResult' = NoRecording
    /\ attempt' = 0
    /\ fdc' = NoFdc
    /\ trace' = << >>
    /\ committed' = 0
    /\ UNCHANGED <<outsideBot, gasPriceGwei, stats, timerArmed, inProgress>>

\* the circuit breaker with a strict comparison
circuitBreakerStrict(consecutiveFailures) ==
    consecutiveFailures > CircuitBreakerThreshold

\* tryRecordPrice, line 874: the circuit-breaker test
circuitBreaker(consecutiveFailures) ==
    consecutiveFailures >= CircuitBreakerThreshold

\* tryRecordPrice, the catch block: count the failure, trip the circuit
\* breaker or return null to the main loop, which waits for the next cycle
RecordingFailure(name, result) ==
    LET failures == stats.recording.consecutiveFailures + 1
    IN  /\ stats' = [stats EXCEPT !.recording.failed = @ + 1,
                                  !.recording.consecutiveFailures = failures]
        /\ inProgress' = inProgress \ {cyclePoolConfig}
        /\ IF circuitBreaker(failures)
             THEN StopAndExit(1, name, result)
           ELSE /\ Goto("sleep", name, result)
                /\ UNCHANGED <<isRunning, exitCode>>

\* tryRecordPrice returns null without an error
RecordingSkipped(name, result) ==
    /\ Goto("sleep", name, result)
    /\ UNCHANGED <<stats, isRunning, exitCode, inProgress>>

\* a skip that is counted as a failed recording
canUpdateCountingSkips ==
    /\ pc = "canUpdate"
    /\ \E answer \in {"true", "false", "throws"} :
          IF answer = "true"
            THEN /\ Goto("getFeeData", "canUpdate", answer)
                 /\ UNCHANGED <<stats, isRunning, exitCode, inProgress>>
          ELSE RecordingFailure("canUpdate", answer)
    /\ UNCHANGED <<outsideBot, committed, balanceFLR, gasPriceGwei, cycleCount, currentPoolIndex,
                   selection, recordingResult, attempt, fdc, timerArmed,
                   trace>>

\* tryRecordPrice: await priceRecorder.canUpdate(pool)
canUpdate ==
    /\ pc = "canUpdate"
    /\ \E answer \in {"true", "false", "throws"} :
          IF answer = "true"
            THEN /\ Goto("getFeeData", "canUpdate", answer)
                 /\ UNCHANGED <<stats, isRunning, exitCode, inProgress>>
          ELSE IF answer = "false"
            THEN RecordingSkipped("canUpdate", answer)
          ELSE RecordingFailure("canUpdate", answer)
    /\ UNCHANGED <<outsideBot, committed, balanceFLR, gasPriceGwei, cycleCount, currentPoolIndex,
                   selection, recordingResult, attempt, fdc, timerArmed,
                   trace>>

\* CONFIG.MAX_GAS_PRICE_GWEI
MAX_GAS_PRICE_GWEI == 100

\* the ceiling in wei
GasCeiling == Mul(FromInt(MAX_GAS_PRICE_GWEI), Pow10(9))

\* what getFeeData reports, in wei.  null and 0n are both falsy, and the
\* code only tests the fields for truth: Zero stands for either
FeeDataAnswers ==
    [gasPrice : {Zero, Sub(GasCeiling, <<1>>), GasCeiling, Add(GasCeiling, <<1>>)},
     maxFeePerGas : {Zero, Sub(GasCeiling, <<1>>), Add(GasCeiling, Pow10(9))}]

\* a test that lets every gas price through
gasTooHighNever(wei) == FALSE

\* tryRecordPrice: gasPriceGwei > MAX_GAS_PRICE_GWEI, where gasPriceGwei is
\* Number(wei) / 1e9.  Below 2^53 wei the conversion is exact and two
\* amounts one wei apart give different quotients, so the test is decided by
\* the amounts in wei
gasTooHigh(wei) == Less(GasCeiling, ToNumber(wei))

\* tryRecordPrice: await provider.getFeeData() and the gas price tests
getFeeData ==
    /\ pc = "getFeeData"
    /\ \/ \E feeData \in FeeDataAnswers :
             LET wei == IF feeData.gasPrice # Zero THEN feeData.gasPrice
                        ELSE feeData.maxFeePerGas
             IN  /\ gasPriceGwei' = wei
                 /\ IF wei = Zero
                      THEN RecordingSkipped("getFeeData", "unknown")
                    ELSE IF gasTooHigh(wei)
                      THEN RecordingSkipped("getFeeData", "high")
                    ELSE /\ Goto("recordPrice", "getFeeData", "ok")
                         /\ UNCHANGED <<stats, isRunning, exitCode, inProgress>>
       \/ /\ RecordingFailure("getFeeData", "throws")
          /\ UNCHANGED gasPriceGwei
    /\ UNCHANGED <<outsideBot, committed, balanceFLR, cycleCount, currentPoolIndex,
                   selection, recordingResult, attempt, fdc, timerArmed,
                   trace>>

\* recordPriceForPool: await priceRecorder.recordPrice(pool); the wait for
\* the receipt that follows races a 300 s timer
recordPrice ==
    /\ pc = "recordPrice"
    /\ \E answer \in {"sent", "throws"} :
          IF answer = "sent"
            THEN /\ timerArmed' = TRUE
                 /\ trace' = <<TraceEntry("recordSubmitted", cycleCount, 0)>>
                 /\ inProgress' = inProgress \cup {cyclePoolConfig}
                 /\ Goto("awaitRecord", "recordPrice", answer)
                 /\ UNCHANGED <<stats, isRunning, exitCode>>
          ELSE /\ RecordingFailure("recordPrice", answer)
               /\ UNCHANGED <<timerArmed, trace>>
    /\ gasPriceGwei' = Zero
    /\ UNCHANGED <<outsideBot, committed, balanceFLR, cycleCount, currentPoolIndex,
                   selection, recordingResult, attempt, fdc>>

\* recordPriceForPool: Promise.race([tx.wait(), timeout]); on a receipt the
\* counters are updated and start() calls tryAttest with the result
awaitRecord ==
    /\ pc = "awaitRecord"
    /\ \E answer \in {"included", "reverted", "timeout"} :
          /\ answer = "timeout" => timerArmed
          /\ IF answer = "included"
               THEN /\ stats' = [stats EXCEPT
                                   !.recording.successful = @ + 1,
                                   !.recording.consecutiveFailures = 0]
                    /\ recordingResult' = <<[txHash |-> cycleCount,
                                             poolConfig |-> cyclePoolConfig]>>
                    /\ trace' = Append(trace,
                                       TraceEntry("recordIncluded", cycleCount, 0))
                    /\ Goto("prepare", "awaitRecord", answer)
                    /\ UNCHANGED <<isRunning, exitCode, inProgress>>
             ELSE /\ RecordingFailure("awaitRecord", answer)
                  /\ UNCHANGED <<recordingResult, trace>>
    /\ timerArmed' = FALSE
    /\ attempt' = 0
    /\ UNCHANGED <<outsideBot, committed, balanceFLR, gasPriceGwei, cycleCount, currentPoolIndex,
                   selection, fdc>>

\* an attestation failure that is counted as a recording failure as well
AttestationFailureTripsBreaker(name, result) ==
    LET failures == stats.recording.consecutiveFailures + 1
    IN  /\ stats' = [stats EXCEPT !.recording.consecutiveFailures = failures,
                                  !.attestation.failed =
                                      IF attempt < MAX_ATTESTATION_RETRIES
                                        THEN @ ELSE @ + 1]
        /\ inProgress' = IF attempt < MAX_ATTESTATION_RETRIES THEN inProgress
                         ELSE inProgress \ {cyclePoolConfig}
        /\ IF circuitBreaker(failures)
             THEN StopAndExit(1, name, result)
           ELSE /\ Goto(IF attempt < MAX_ATTESTATION_RETRIES
                          THEN "backoff" ELSE "sleep", name, result)
                /\ UNCHANGED <<isRunning, exitCode>>

\* tryAttest, the catch block: wait and retry, or count the failure and
\* return to the main loop
AttestationFailure(name, result) ==
    /\ IF attempt < MAX_ATTESTATION_RETRIES
         THEN /\ Goto("backoff", name, result)
              /\ UNCHANGED <<stats, inProgress>>
       ELSE /\ stats' = [stats EXCEPT !.attestation.failed = @ + 1]
            /\ inProgress' = inProgress \ {cyclePoolConfig}
            /\ Goto("sleep", name, result)
    /\ UNCHANGED <<isRunning, exitCode>>

\* a step of the chain that leaves the counters and the process alone
AttestationContinues(newPc, name, result) ==
    /\ Goto(newPc, name, result)
    /\ UNCHANGED <<stats, isRunning, exitCode, inProgress>>

\* requestAttestation: prepareAttestationRequest(txHash), the verifier call
prepare ==
    /\ pc = "prepare"
    /\ \E answer \in {"ok", "throws"} :
          IF answer = "ok"
            THEN /\ fdc' = [NoFdc EXCEPT
                              !.requestBytes = recordingResult[1].txHash]
                 /\ AttestationContinues("fee", "prepare", answer)
          ELSE /\ AttestationFailure("prepare", answer)
               /\ UNCHANGED fdc
    /\ UNCHANGED <<outsideBot, committed, balanceFLR, gasPriceGwei, cycleCount, currentPoolIndex,
                   selection, recordingResult, attempt, timerArmed, trace>>

\* the fee getRequestFee quotes for a request, in wei
QuotedFees == {Pow10(17)}

\* requestAttestation: ethers.parseEther("0.5")
FallbackFee == Mul(FromInt(5), Pow10(17))

\* a failed fee query that fails the attempt
feeAborting ==
    /\ pc = "fee"
    /\ \/ \E quoted \in QuotedFees :
             /\ fdc' = [fdc EXCEPT !.fee = quoted]
             /\ AttestationContinues("requestAttestation", "fee", "ok")
       \/ /\ AttestationFailure("fee", "throws")
          /\ UNCHANGED fdc
    /\ UNCHANGED <<outsideBot, committed, balanceFLR, gasPriceGwei, cycleCount, currentPoolIndex,
                   selection, recordingResult, attempt, timerArmed,
                   trace>>

\* requestAttestation: the fee query (fdcRequestFeeConfigurations, then
\* getRequestFee) in its try block; the catch sets the fallback fee
fee ==
    /\ pc = "fee"
    /\ \/ \E quoted \in QuotedFees :
             /\ fdc' = [fdc EXCEPT !.fee = quoted]
             /\ AttestationContinues("requestAttestation", "fee", "ok")
       \/ /\ fdc' = [fdc EXCEPT !.fee = FallbackFee]
          /\ AttestationContinues("requestAttestation", "fee", "fallback")
    /\ UNCHANGED <<outsideBot, committed, balanceFLR, gasPriceGwei, cycleCount, currentPoolIndex,
                   selection, recordingResult, attempt, timerArmed,
                   trace>>

\* requestAttestation: await fdcHub.requestAttestation(requestBytes,
\* {value: fee}); the tx.wait() that follows has no timeout
requestAttestation ==
    /\ pc = "requestAttestation"
    /\ \E answer \in {"sent", "throws"} :
          IF answer = "sent"
            THEN /\ trace' = Append(trace, TraceEntry("requestSubmitted",
                                                      fdc.requestBytes, 0))
                 /\ fdc' = [fdc EXCEPT !.value = fdc.fee]
                 /\ AttestationContinues("awaitRequest", "requestAttestation",
                                         answer)
          ELSE /\ AttestationFailure("requestAttestation", answer)
               /\ UNCHANGED <<fdc, trace>>
    /\ timerArmed' = FALSE
    /\ UNCHANGED <<outsideBot, committed, balanceFLR, gasPriceGwei, cycleCount, currentPoolIndex,
                   selection, recordingResult, attempt>>

\* requestAttestation: await tx.wait()
awaitRequest ==
    /\ pc = "awaitRequest"
    /\ \E answer \in {"included", "reverted", "timeout"} :
          /\ answer = "timeout" => timerArmed
          /\ IF answer = "included"
               THEN AttestationContinues("getVotingRoundId", "awaitRequest",
                                         answer)
             ELSE AttestationFailure("awaitRequest", answer)
    /\ UNCHANGED <<outsideBot, committed, balanceFLR, gasPriceGwei, cycleCount, currentPoolIndex,
                   selection, recordingResult, attempt, fdc, timerArmed,
                   trace>>

\* requestAttestation: getBlock and relay.getVotingRoundId
getVotingRoundId ==
    /\ pc = "getVotingRoundId"
    /\ \/ \E round \in RoundIds :
             /\ fdc' = [fdc EXCEPT !.votingRoundId = round]
             /\ AttestationContinues("waitForFinalization",
                                     "getVotingRoundId", "ok")
       \/ /\ AttestationFailure("getVotingRoundId", "throws")
          /\ UNCHANGED fdc
    /\ UNCHANGED <<outsideBot, committed, balanceFLR, gasPriceGwei, cycleCount, currentPoolIndex,
                   selection, recordingResult, attempt, timerArmed, trace>>

\* waitForFinalization: the default of maxWaitSeconds and the wait between
\* two polls, in seconds
maxWaitSeconds == 300
PollSeconds    == 10

\* a deadline of a single poll interval
beforeDeadlineOnePoll(waited) == waited < PollSeconds

\* waitForFinalization: Date.now() < endTime, for the time waited so far
beforeDeadline(waited) == waited < maxWaitSeconds

\* waitForFinalization: the isFinalized call and the wait that follow the
\* deadline test.  The clock moves by the wait and by however long the call
\* took; the time waited is a local of waitForFinalization and is dropped
\* when it returns or throws
pollRelay(onFalse) ==
    IF beforeDeadline(fdc.waited)
      THEN \E answer \in {"finalized", "pending", "throws"} :
             IF answer = "finalized"
               THEN /\ trace' = Append(trace, TraceEntry("finalized",
                                           fdc.requestBytes, fdc.votingRoundId))
                    /\ AttestationContinues("settle", "waitForFinalization",
                                            answer)
                    /\ fdc' = [fdc EXCEPT !.waited = 0]
             ELSE IF answer = "pending"
               THEN /\ \E slow \in BOOLEAN :
                         fdc' = [fdc EXCEPT !.waited =
                                   IF slow \/ @ + PollSeconds > maxWaitSeconds
                                     THEN maxWaitSeconds
                                   ELSE @ + PollSeconds]
                    /\ AttestationContinues("waitForFinalization",
                                            "waitForFinalization", answer)
                    /\ UNCHANGED trace
             ELSE /\ AttestationFailure("waitForFinalization", answer)
                  /\ fdc' = [fdc EXCEPT !.waited = 0]
                  /\ UNCHANGED trace
    ELSE /\ onFalse
         /\ fdc' = [fdc EXCEPT !.waited = 0]
         /\ UNCHANGED trace

\* the chain going on when the round did not finalize in time
waitForFinalizationIgnoringResult ==
    /\ pc = "waitForFinalization"
    /\ pollRelay(AttestationContinues("settle", "waitForFinalization",
                                      "timeout"))
    /\ UNCHANGED <<outsideBot, committed, balanceFLR, gasPriceGwei, cycleCount, currentPoolIndex,
                   selection, recordingResult, attempt, timerArmed>>

\* getProofForTransaction: one turn of the loop of waitForFinalization,
\* which polls relay.isFinalized until maxWaitSeconds have passed; when it
\* returns false getProofForTransaction throws
waitForFinalization ==
    /\ pc = "waitForFinalization"
    /\ pollRelay(AttestationFailure("waitForFinalization", "timeout"))
    /\ UNCHANGED <<outsideBot, committed, balanceFLR, gasPriceGwei, cycleCount, currentPoolIndex,
                   selection, recordingResult, attempt, timerArmed>>

\* getProofForTransaction: the 30 s wait for the DA layer
settle ==
    /\ pc = "settle"
    /\ AttestationContinues("retrieveProof", "settle", "elapsed")
    /\ UNCHANGED <<outsideBot, committed, balanceFLR, gasPriceGwei, cycleCount, currentPoolIndex,
                   selection, recordingResult, attempt, fdc, timerArmed,
                   trace>>

\* getProofForTransaction: retrieveProof(votingRoundId, requestBytes)
retrieveProof ==
    /\ pc = "retrieveProof"
    /\ \E answer \in {"ok", "throws"} :
          IF answer = "ok"
            THEN /\ fdc' = [fdc EXCEPT !.proof =
                              [votingRoundId |-> fdc.votingRoundId,
                               requestBytes  |-> fdc.requestBytes]]
                 /\ trace' = Append(trace, TraceEntry("proofFetched",
                                        fdc.requestBytes, fdc.votingRoundId))
                 /\ AttestationContinues("updateFromProof", "retrieveProof",
                                         answer)
          ELSE /\ AttestationFailure("retrieveProof", answer)
               /\ UNCHANGED <<fdc, trace>>
    /\ UNCHANGED <<outsideBot, committed, balanceFLR, gasPriceGwei, cycleCount, currentPoolIndex,
                   selection, recordingResult, attempt, timerArmed>>

\* tryAttest: formatProofForContract and await feedContract.updateFromProof;
\* the updateTx.wait() that follows has no timeout
submitUpdateFromProof ==
    /\ pc = "updateFromProof"
    /\ \E answer \in {"sent", "throws"} :
          IF answer = "sent"
            THEN /\ trace' = Append(trace, TraceEntry("updateSubmitted",
                                        fdc.proof.requestBytes,
                                        fdc.proof.votingRoundId))
                 /\ AttestationContinues("awaitUpdate", "updateFromProof", answer)
          ELSE /\ AttestationFailure("updateFromProof", answer)
               /\ UNCHANGED trace
    /\ timerArmed' = FALSE
    /\ UNCHANGED <<outsideBot, committed, balanceFLR, gasPriceGwei, cycleCount, currentPoolIndex,
                   selection, recordingResult, attempt, fdc>>

\* tryAttest: await updateTx.wait()
awaitUpdate ==
    /\ pc = "awaitUpdate"
    /\ \E answer \in {"included", "reverted", "timeout"} :
          /\ answer = "timeout" => timerArmed
          /\ IF answer = "included"
               THEN /\ trace' = Append(trace, TraceEntry("updateIncluded",
                                           fdc.proof.requestBytes,
                                           fdc.proof.votingRoundId))
                    /\ committed' = committed + 1
                    /\ AttestationContinues("readBack", "awaitUpdate", answer)
             ELSE /\ AttestationFailure("awaitUpdate", answer)
                  /\ UNCHANGED <<trace, committed>>
    /\ UNCHANGED <<outsideBot, balanceFLR, gasPriceGwei, cycleCount, currentPoolIndex,
                   selection, recordingResult, attempt, fdc, timerArmed>>

\* tryAttest: read latestValue and updateCount back, count the success and
\* return
readBack ==
    /\ pc = "readBack"
    /\ \E answer \in {"ok", "throws"} :
          IF answer = "ok"
            THEN /\ stats' = [stats EXCEPT !.attestation.successful = @ + 1]
                 /\ inProgress' = inProgress \ {cyclePoolConfig}
                 /\ Goto("sleep", "readBack", answer)
                 /\ UNCHANGED <<isRunning, exitCode>>
          ELSE AttestationFailure("readBack", answer)
    /\ UNCHANGED <<outsideBot, committed, balanceFLR, gasPriceGwei, cycleCount, currentPoolIndex,
                   selection, recordingResult, attempt, fdc, timerArmed,
                   trace>>

\* a retry left to run in the background while the main loop goes on
backoffInBackground ==
    /\ pc = "backoff"
    /\ attempt' = attempt + 1
    /\ fdc' = NoFdc
    /\ trace' = SubSeq(trace, 1, 2)
    /\ AttestationContinues("sleep", "backoff", "elapsed")
    /\ UNCHANGED <<outsideBot, committed, balanceFLR, gasPriceGwei, cycleCount, currentPoolIndex,
                   selection, recordingResult, timerArmed>>

\* tryAttest: the 10 s wait before the next attempt, which starts the chain
\* again from the request
backoff ==
    /\ pc = "backoff"
    /\ attempt' = attempt + 1
    /\ fdc' = NoFdc
    /\ trace' = SubSeq(trace, 1, 2)
    /\ AttestationContinues("prepare", "backoff", "elapsed")
    /\ UNCHANGED <<outsideBot, committed, balanceFLR, gasPriceGwei, cycleCount, currentPoolIndex,
                   selection, recordingResult, timerArmed>>

\* a main loop that takes up again an attestation that was given up
sleepResuming ==
    /\ pc = "sleep"
    /\ IF recordingResult # NoRecording /\ step.result \in {"throws", "reverted",
                                                           "timeout"}
         THEN /\ Goto("prepare", "sleep", "elapsed")
              /\ attempt' = 0
       ELSE /\ Goto("loop", "sleep", "elapsed")
            /\ UNCHANGED attempt
    /\ gasPriceGwei' = Zero
    /\ UNCHANGED <<outsideBot, committed, balanceFLR, isRunning, cycleCount,
                   currentPoolIndex, stats, exitCode, selection,
                   recordingResult, fdc, timerArmed, trace, inProgress>>

\* start(): the CHECK_INTERVAL wait at the end of a cycle
sleep ==
    /\ pc = "sleep"
    /\ Goto("loop", "sleep", "elapsed")
    /\ gasPriceGwei' = Zero
    /\ UNCHANGED <<outsideBot, committed, balanceFLR, isRunning, cycleCount, currentPoolIndex,
                   stats, exitCode, selection, recordingResult, attempt,
                   fdc, timerArmed, trace, inProgress>>

BotInit ==
    /\ Deploy(<<Recorder, PoolA, FeedName, "fdcVerification", 18, 18, FALSE>>, {})
    /\ PriceMathIdle
    /\ BotConstructed
    /\ DashMounted
    /\ RecorderIdle
    /\ FormatIdle

BotNext ==
    \/ start
    \/ nextCycle
    \/ canUpdate
    \/ getFeeData
    \/ recordPrice
    \/ awaitRecord
    \/ prepare
    \/ fee
    \/ requestAttestation
    \/ awaitRequest
    \/ getVotingRoundId
    \/ waitForFinalization
    \/ settle
    \/ retrieveProof
    \/ submitUpdateFromProof
    \/ awaitUpdate
    \/ readBack
    \/ backoff
    \/ sleep

BotSpec == BotInit /\ [][BotNext]_vars

\* ------------------------------------------------------------------------
\* Properties of the bot
\* ------------------------------------------------------------------------

\* the statements of tryAttest
AttestPcs ==
    {"prepare", "fee", "requestAttestation", "awaitRequest", "getVotingRoundId",
     "waitForFinalization", "settle", "retrieveProof", "updateFromProof",
     "awaitUpdate", "readBack", "backoff"}

InTryAttest == pc \in AttestPcs

\* the answers that make the awaited call throw
FailureAnswers == {"throws", "reverted", "timeout"}

\* C15: once the consecutive recording failures reach the circuit-breaker
\* threshold (10) the scheduler has halted (stop() and process.exit(1)), and
\* from then on nothing is issued for any feed: the bot takes no further step.
C15_CircuitBreakerHalts ==
    /\ [](stats.recording.consecutiveFailures >= CircuitBreakerThreshold
          => (pc = "exited" /\ ~isRunning /\ exitCode = 1))
    /\ [][pc = "exited" => UNCHANGED bot]_vars

\* the tenth consecutive recording failure has tripped the breaker
C15_Witness ==
    /\ stats.recording.consecutiveFailures = CircuitBreakerThreshold
    /\ pc = "exited"
    /\ step.name \in {"canUpdate", "getFeeData", "recordPrice", "awaitRecord"}

\* C16: when canUpdate(pool) answers false the feed is skipped for the
\* cycle: no transaction is submitted, no error is raised, and the recording
\* and attestation counters are unchanged.
C16_NotReadySkipsQuietly ==
    [][(pc = "canUpdate" /\ step'.name = "canUpdate" /\ step'.result = "false")
       => /\ pc' = "sleep"
          /\ stats' = stats
          /\ trace' = << >>
          /\ recordingResult' = NoRecording
          /\ isRunning' /\ exitCode' = "none"]_vars

\* a feed was skipped while earlier failures were on the counter
C16_Witness ==
    /\ pc = "sleep"
    /\ step = [name |-> "canUpdate", result |-> "false"]
    /\ stats.recording.consecutiveFailures > 0
    /\ stats.attestation.failed > 0

\* C17: a failing attempt of tryAttest leaves the recording counters alone,
\* does not throw and does not stop the scheduler; before the retries are
\* exhausted it counts nothing and waits for the next attempt, and once
\* they are exhausted it counts the failure once (attestation.failed + 1) and
\* the main loop goes on to the next feed in rotation.
C17_AttestationFailuresContained ==
    [][(InTryAttest /\ step'.result \in FailureAnswers)
       => /\ stats'.recording = stats.recording
          /\ isRunning' /\ exitCode' = "none"
          /\ IF attempt < MAX_ATTESTATION_RETRIES
               THEN stats' = stats /\ pc' = "backoff"
             ELSE /\ stats'.attestation =
                        [stats.attestation EXCEPT !.failed = @ + 1]
                  /\ pc' = "sleep"
                  /\ currentPoolIndex' = currentPoolIndex
                  /\ POOLS[currentPoolIndex' + 1] # cyclePoolConfig']_vars

\* the retries of one recording are exhausted and the loop goes on
C17_Witness ==
    /\ pc = "sleep"
    /\ step.result \in FailureAnswers
    /\ recordingResult # NoRecording
    /\ attempt = MAX_ATTESTATION_RETRIES
    /\ stats.attestation.failed > 0
    /\ isRunning

\* C18: for one recording tryAttest runs the chain at most
\* MAX_ATTESTATION_RETRIES + 1 times, every attempt after the backoff starts
\* again from prepare, no attempt follows one whose updateFromProof was
\* included, and tryAttest returns in every case: it is never left waiting
\* for a transaction with nothing that ends the wait.
C18_BoundedAttemptsAndReturn ==
    /\ attempt <= MAX_ATTESTATION_RETRIES
    /\ step.name = "backoff" => (pc = "prepare" /\ fdc = NoFdc)
    /\ pc = "backoff" => \A i \in 1..Len(trace) : trace[i].step # "updateIncluded"
    /\ pc \in {"awaitRequest", "awaitUpdate"} => timerArmed

\* the order of the chain within one cycle
ChainOrder ==
    <<"recordSubmitted", "recordIncluded", "requestSubmitted", "finalized",
      "proofFetched", "updateSubmitted", "updateIncluded">>

\* C19: within one cycle the steps occur in the order recordPrice included,
\* attestation requested for that transaction's hash, round finalized, proof
\* fetched for that round and request, updateFromProof submitted with that
\* proof; each step follows the successful completion of the one before, and
\* no attestation is requested in a cycle whose recording did not succeed.
C19_ChainInOrder ==
    /\ Len(trace) <= Len(ChainOrder)
    /\ \A i \in 1..Len(trace) :
          /\ trace[i].step = ChainOrder[i]
          /\ trace[i].txHash = cycleCount
          /\ trace[i].votingRoundId = IF i >= 4 THEN trace[4].votingRoundId ELSE 0
          /\ i >= 4 => trace[i].votingRoundId \in RoundIds
    /\ (InTryAttest \/ Len(trace) >= 3)
       => /\ recordingResult = <<[txHash |-> cycleCount,
                                  poolConfig |-> cyclePoolConfig]>>
          /\ Len(trace) >= 2
    /\ pc = "awaitRequest" => Len(trace) = 3
    /\ pc = "retrieveProof" => Len(trace) = 4
    /\ pc = "updateFromProof" => Len(trace) = 5
    /\ pc = "awaitUpdate" => Len(trace) = 6

\* a whole chain has run, on a retry
C19_Witness ==
    /\ Len(trace) = Len(ChainOrder)
    /\ attempt > 0
    /\ pc = "readBack"

\* C20: every wait for the inclusion of a transaction (recordPrice,
\* requestAttestation, updateFromProof) races a timeout, so that the cycle
\* resolves even if the transaction is never included.
C20_InclusionWaitsBounded ==
    pc \in {"awaitRecord", "awaitRequest", "awaitUpdate"} => timerArmed

\* ------------------------------------------------------------------------
\* The dashboard: useFeedUpdater
\* ------------------------------------------------------------------------

\* updateFeed: the finalization wait, in milliseconds
maxWaitMs    == 300000
pollInterval == 10000

\* bound on the number of updateFeed calls explored
MaxRuns == 2

\* the receipt of a transaction the wallet has sent
Receipts == {"success", "reverted", "throws"}

\* updateProgress(step, ...): the message is kept for errors only
Advance(newPc, stepName) ==
    /\ uiPc' = newPc
    /\ progress' = Progress(stepName, "")
    /\ UNCHANGED <<isUpdating, cancelled, runs>>

\* updateFeed, the catch and finally blocks
Fail(message) ==
    /\ uiPc' = "idle"
    /\ progress' = Progress("error", message)
    /\ isUpdating' = FALSE
    /\ UNCHANGED <<cancelled, runs>>

\* if (cancelled) throw new Error('Cancelled by user'), where cancelled is
\* the constant the closure of the running call holds
Checkpoint(newPc, stepName) ==
    IF run.cancelled THEN Fail("Cancelled by user") ELSE Advance(newPc, stepName)

\* cancel(): setCancelled(true), called by MonitorPage.handleCloseModal
\* when isUpdating
cancel ==
    /\ isUpdating
    /\ cancelled' = TRUE
    /\ UNCHANGED <<feed, priceMath, bot, priceRecorder, format, uiPc, progress,
                   isUpdating, run, calls, runs>>

\* updateFeed up to its first await; without a wallet it throws before the
\* try block and changes nothing
updateFeed ==
    /\ uiPc = "idle"
    /\ runs < MaxRuns
    /\ \E connected \in BOOLEAN :
          IF connected
            THEN /\ isUpdating' = TRUE
                 /\ cancelled' = FALSE
                 /\ run' = [NoRun EXCEPT !.cancelled = cancelled]
                 /\ calls' = << >>
                 /\ runs' = runs + 1
                 /\ uiPc' = "enabledPools"
                 /\ progress' = Progress("checking", "")
          ELSE UNCHANGED dash
    /\ UNCHANGED <<feed, priceMath, bot, priceRecorder, format>>

\* updateFeed: await readContract enabledPools(pool)
updateFeedEnabledPools ==
    /\ uiPc = "enabledPools"
    /\ \E answer \in {"true", "false", "throws"} :
          IF answer = "true" THEN Advance("canUpdate", "checking")
          ELSE IF answer = "false" THEN Advance("enablePool", "enabling-pool")
          ELSE Fail("readContract failed")
    /\ UNCHANGED <<feed, priceMath, bot, priceRecorder, format, run, calls>>

\* updateFeed: await writeContract enablePool(pool)
updateFeedEnablePool ==
    /\ uiPc = "enablePool"
    /\ \E answer \in {"sent", "throws"} :
          IF answer = "sent"
            THEN /\ calls' = Append(calls, "enablePool")
                 /\ Advance("awaitEnable", "enabling-pool")
          ELSE /\ Fail("writeContract failed")
               /\ UNCHANGED calls
    /\ UNCHANGED <<feed, priceMath, bot, priceRecorder, format, run>>

\* updateFeed: await waitForTransactionReceipt(enableHash), then a pause of
\* one second
updateFeedAwaitEnable ==
    /\ uiPc = "awaitEnable"
    /\ \E receipt \in Receipts :
          IF receipt = "success" THEN Advance("canUpdate", "enabling-pool")
          ELSE IF receipt = "reverted"
            THEN Fail("Failed to enable pool on recorder")
          ELSE Fail("waitForTransactionReceipt failed")
    /\ UNCHANGED <<feed, priceMath, bot, priceRecorder, format, run, calls>>

\* updateFeed: await readContract canUpdate(pool)
updateFeedCanUpdate ==
    /\ uiPc = "canUpdate"
    /\ \E answer \in {"true", "false", "throws"} :
          IF answer = "true" THEN Advance("recordPrice", "recording")
          ELSE IF answer = "false"
            THEN Fail("Pool cannot be updated yet (interval not elapsed)")
          ELSE Fail("readContract failed")
    /\ UNCHANGED <<feed, priceMath, bot, priceRecorder, format, run, calls>>

\* updateFeed: await writeContract recordPrice(pool)
updateFeedRecordPrice ==
    /\ uiPc = "recordPrice"
    /\ \E answer \in {"sent", "throws"} :
          IF answer = "sent"
            THEN /\ calls' = Append(calls, "recordPrice")
                 /\ run' = [run EXCEPT !.recordHash = runs]
                 /\ Advance("awaitRecord", "recording")
          ELSE /\ Fail("writeContract failed")
               /\ UNCHANGED <<run, calls>>
    /\ UNCHANGED <<feed, priceMath, bot, priceRecorder, format>>

\* updateFeed: await waitForTransactionReceipt(recordHash)
updateFeedAwaitRecord ==
    /\ uiPc = "awaitRecord"
    /\ \E receipt \in Receipts :
          IF receipt = "success"
            THEN Checkpoint("prepareRequest", "requesting-attestation")
          ELSE IF receipt = "reverted" THEN Fail("Record transaction reverted")
          ELSE Fail("waitForTransactionReceipt failed")
    /\ UNCHANGED <<feed, priceMath, bot, priceRecorder, format, run, calls>>

\* updateFeed: await fetch('/api/fdc/prepare-request') for recordHash
updateFeedPrepareRequest ==
    /\ uiPc = "prepareRequest"
    /\ \E answer \in {"ok", "notOk", "throws"} :
          IF answer = "throws"
            THEN /\ Fail("fetch failed")
                 /\ UNCHANGED <<run, calls>>
          ELSE /\ calls' = Append(calls, "prepare-request")
               /\ IF answer = "ok"
                    THEN /\ run' = [run EXCEPT !.requestBytes = run.recordHash]
                         /\ Checkpoint("fee", "requesting-attestation")
                  ELSE /\ Fail("Failed to prepare attestation request")
                       /\ UNCHANGED run
    /\ UNCHANGED <<feed, priceMath, bot, priceRecorder, format>>

\* updateFeed: the fallback fee, 1000000000000000000n
FallbackFeeWei == Pow10(18)

\* updateFeed: the two fee reads in their try block; the catch sets the
\* fallback fee of 1 FLR
updateFeedFee ==
    /\ uiPc = "fee"
    /\ \/ \E quoted \in QuotedFees : run' = [run EXCEPT !.fee = quoted]
       \/ run' = [run EXCEPT !.fee = FallbackFeeWei]
    /\ Advance("requestAttestation", "requesting-attestation")
    /\ UNCHANGED <<feed, priceMath, bot, priceRecorder, format, calls>>

\* updateFeed: await writeContract requestAttestation(requestBytes), value fee
updateFeedRequestAttestation ==
    /\ uiPc = "requestAttestation"
    /\ \E answer \in {"sent", "throws"} :
          IF answer = "sent"
            THEN /\ calls' = Append(calls, "requestAttestation")
                 /\ run' = [run EXCEPT !.value = run.fee]
                 /\ Advance("awaitRequest", "requesting-attestation")
          ELSE /\ Fail("writeContract failed")
               /\ UNCHANGED <<run, calls>>
    /\ UNCHANGED <<feed, priceMath, bot, priceRecorder, format>>

\* updateFeed: await waitForTransactionReceipt(attestHash)
updateFeedAwaitRequest ==
    /\ uiPc = "awaitRequest"
    /\ \E receipt \in Receipts :
          IF receipt = "success"
            THEN Advance("getVotingRoundId", "requesting-attestation")
          ELSE IF receipt = "reverted" THEN Fail("Attestation request reverted")
          ELSE Fail("waitForTransactionReceipt failed")
    /\ UNCHANGED <<feed, priceMath, bot, priceRecorder, format, run, calls>>

\* updateFeed: await getBlock, await readContract getVotingRoundId; the
\* finalization wait starts
updateFeedGetVotingRoundId ==
    /\ uiPc = "getVotingRoundId"
    /\ \/ \E round \in RoundIds :
             /\ run' = [run EXCEPT !.votingRoundId = round, !.waited = 0]
             /\ Checkpoint("isFinalized", "waiting-finalization")
       \/ /\ Fail("readContract failed")
          /\ UNCHANGED run
    /\ UNCHANGED <<feed, priceMath, bot, priceRecorder, format, calls>>

\* updateFeed: one turn of the while loop: the deadline test, the
\* checkpoint, await readContract isFinalized(200, votingRoundId), and the
\* pollInterval wait; the clock moves by the wait and by however long the
\* calls took.  After the loop, whichever way it ended, comes the wait for
\* the DA layer
updateFeedIsFinalized ==
    /\ uiPc = "isFinalized"
    /\ IF run.waited < maxWaitMs
         THEN IF run.cancelled
                THEN Fail("Cancelled by user") /\ UNCHANGED run
              ELSE \E answer \in {"true", "false", "throws"} :
                     IF answer = "true"
                       THEN /\ run' = [run EXCEPT !.finalized = TRUE]
                            /\ Advance("daSync", "waiting-finalization")
                     ELSE IF answer = "false"
                       THEN /\ \E slow \in BOOLEAN :
                                 run' = [run EXCEPT !.waited =
                                           IF slow \/ @ + pollInterval > maxWaitMs
                                             THEN maxWaitMs
                                           ELSE @ + pollInterval]
                            /\ Advance("isFinalized", "waiting-finalization")
                     ELSE Fail("readContract failed") /\ UNCHANGED run
       ELSE /\ Advance("daSync", "waiting-finalization")
            /\ UNCHANGED run
    /\ UNCHANGED <<feed, priceMath, bot, priceRecorder, format, calls>>

\* updateFeed: the 30 s wait for the DA layer
updateFeedDaSync ==
    /\ uiPc = "daSync"
    /\ Checkpoint("getProof", "retrieving-proof")
    /\ UNCHANGED <<feed, priceMath, bot, priceRecorder, format, run, calls>>

\* updateFeed: await fetch('/api/fdc/get-proof') for the round and the
\* request
updateFeedGetProof ==
    /\ uiPc = "getProof"
    /\ \E answer \in {"ok", "notOk", "noResponseHex", "throws"} :
          IF answer = "throws"
            THEN /\ Fail("fetch failed")
                 /\ UNCHANGED <<run, calls>>
          ELSE /\ calls' = Append(calls, "get-proof")
               /\ IF answer = "ok"
                    THEN /\ run' = [run EXCEPT !.proof =
                                      [votingRoundId |-> run.votingRoundId,
                                       requestBytes  |-> run.requestBytes]]
                         /\ Checkpoint("updateFromProof", "submitting-proof")
                  ELSE /\ Fail(IF answer = "notOk"
                                 THEN "Failed to retrieve proof from DA Layer"
                               ELSE "Invalid proof response")
                       /\ UNCHANGED run
    /\ UNCHANGED <<feed, priceMath, bot, priceRecorder, format>>

\* updateFeed: the proof struct is built and await writeContract
\* updateFromProof(proofStruct)
updateFeedUpdateFromProof ==
    /\ uiPc = "updateFromProof"
    /\ \E answer \in {"sent", "throws"} :
          IF answer = "sent"
            THEN /\ calls' = Append(calls, "updateFromProof")
                 /\ Advance("awaitUpdate", "submitting-proof")
          ELSE /\ Fail("writeContract failed")
               /\ UNCHANGED calls
    /\ UNCHANGED <<feed, priceMath, bot, priceRecorder, format, run>>

\* updateFeed: await waitForTransactionReceipt(updateHash); success, and the
\* finally block
updateFeedAwaitUpdate ==
    /\ uiPc = "awaitUpdate"
    /\ \E receipt \in Receipts :
          IF receipt = "success"
            THEN /\ uiPc' = "idle"
                 /\ progress' = Progress("success", "")
                 /\ isUpdating' = FALSE
                 /\ UNCHANGED <<cancelled, runs>>
          ELSE IF receipt = "reverted"
            THEN Fail("Update proof transaction reverted")
          ELSE Fail("waitForTransactionReceipt failed")
    /\ UNCHANGED <<feed, priceMath, bot, priceRecorder, format, run, calls>>

DashInit ==
    /\ Deploy(<<Recorder, PoolA, FeedName, "fdcVerification", 18, 18, FALSE>>, {})
    /\ PriceMathIdle
    /\ BotConstructed
    /\ DashMounted
    /\ RecorderIdle
    /\ FormatIdle

DashNext ==
    \/ cancel
    \/ updateFeed
    \/ updateFeedEnabledPools
    \/ updateFeedEnablePool
    \/ updateFeedAwaitEnable
    \/ updateFeedCanUpdate
    \/ updateFeedRecordPrice
    \/ updateFeedAwaitRecord
    \/ updateFeedPrepareRequest
    \/ updateFeedFee
    \/ updateFeedRequestAttestation
    \/ updateFeedAwaitRequest
    \/ updateFeedGetVotingRoundId
    \/ updateFeedIsFinalized
    \/ updateFeedDaSync
    \/ updateFeedGetProof
    \/ updateFeedUpdateFromProof
    \/ updateFeedAwaitUpdate

DashSpec == DashInit /\ [][DashNext]_vars

\* the two clients of the attestation chain side by side: either the bot
\* runs or the dashboard does
ClientNext ==
    \/ DashMounted /\ BotNext
    \/ pc = "constructed" /\ DashNext

ClientSpec == DashInit /\ [][ClientNext]_vars

\* ------------------------------------------------------------------------
\* Properties of the attestation chain, bot and dashboard
\* ------------------------------------------------------------------------

\* the bot's current attempt has seen the relay report the round finalized
BotSawFinalized == \E i \in 1..Len(trace) : trace[i].step = "finalized"

\* C21: if the voting round is not observed finalized before the deadline
\* the attempt fails: the data-availability endpoint is not queried and
\* updateFromProof is not submitted, in the bot's getProofForTransaction and
\* in the dashboard's updateFeed alike.
C21_NoProofWithoutFinalization ==
    /\ pc \in {"settle", "retrieveProof", "updateFromProof", "awaitUpdate",
               "readBack"} => BotSawFinalized
    /\ (\E i \in 1..Len(trace) : trace[i].step \in {"proofFetched",
                                                    "updateSubmitted"})
       => BotSawFinalized
    /\ uiPc \in {"daSync", "getProof", "updateFromProof", "awaitUpdate"}
       => run.finalized
    /\ (\E i \in 1..Len(calls) : calls[i] \in {"get-proof", "updateFromProof"})
       => run.finalized

\* C22: waitForFinalization polls the relay at a fixed interval; it returns
\* true only when the relay reported the round finalized, it returns false
\* exactly when the deadline has passed without that, and a false result
\* fails the current attempt only: the caller retries (or, the retries being
\* exhausted, returns to the main loop) and the scheduler keeps running.
C22_PollUntilDeadline ==
    [][pc = "waitForFinalization"
       => /\ pc' = "settle" => (step'.result = "finalized" /\ BotSawFinalized')
          /\ step'.result = "pending"
             => /\ pc' = "waitForFinalization"
                /\ fdc.waited < maxWaitSeconds
                /\ fdc'.waited >= fdc.waited + PollSeconds
          /\ step'.result = "timeout" <=> fdc.waited >= maxWaitSeconds
          /\ step'.result = "timeout"
             => /\ isRunning' /\ exitCode' = "none"
                /\ stats'.recording = stats.recording
                /\ pc' = IF attempt < MAX_ATTESTATION_RETRIES
                           THEN "backoff" ELSE "sleep"]_vars

\* the deadline passed on the first attempt and the caller retries
C22_Witness ==
    /\ pc = "backoff"
    /\ step = [name |-> "waitForFinalization", result |-> "timeout"]
    /\ attempt = 0
    /\ isRunning

\* C23: a failure to read the fee never aborts the attempt: the request is
\* submitted with the fixed fallback fee.  A requestAttestation transaction
\* that cannot be sent, or that reverts, aborts the attempt with an error
\* and neither a finalization wait nor a proof fetch follows in it.  Bot and
\* dashboard alike.
C23_FeeFailureTolerated ==
    [][/\ pc = "fee"
          => /\ pc' = "requestAttestation"
             /\ step'.result = "fallback" <=> fdc'.fee = FallbackFee
             /\ stats' = stats /\ attempt' = attempt /\ isRunning'
       /\ (pc = "requestAttestation" /\ step'.result = "sent")
          => (pc' = "awaitRequest" /\ fdc'.value = fdc.fee)
       /\ (pc \in {"requestAttestation", "awaitRequest"}
           /\ step'.result \in FailureAnswers)
          => /\ pc' \in {"backoff", "sleep"}
             /\ ~BotSawFinalized'
             /\ fdc'.proof = NoProof
       /\ (uiPc = "fee" /\ uiPc' # uiPc)
          => /\ uiPc' = "requestAttestation"
             /\ run'.fee \in QuotedFees \cup {FallbackFeeWei}
             /\ isUpdating'
       /\ (uiPc = "requestAttestation" /\ uiPc' = "awaitRequest")
          => /\ run'.value = run.fee
             /\ calls' = Append(calls, "requestAttestation")
       /\ (uiPc \in {"requestAttestation", "awaitRequest"} /\ uiPc' = "idle")
          => /\ progress'.step = "error"
             /\ ~isUpdating'
             /\ ~run'.finalized
             /\ \A i \in 1..Len(calls') : calls'[i] # "get-proof"]_vars

\* the bot sent a request with the fallback fee, the transaction reverted
\* and the attempt was given up
C23_Witness ==
    /\ pc = "backoff"
    /\ step = [name |-> "awaitRequest", result |-> "reverted"]
    /\ fdc.value = FallbackFee

\* ------------------------------------------------------------------------
\* Properties of the bot's main loop
\* ------------------------------------------------------------------------

\* the statements of a cycle that follow the selection of its feed
AfterSelection == AttestPcs \cup {"canUpdate", "getFeeData", "recordPrice",
                                  "awaitRecord", "sleep"}

PositionOf(poolConfig) == CHOOSE k \in 1..Len(POOLS) : POOLS[k] = poolConfig

C25_OnePipelineAtATime ==
    /\ Cardinality(inProgress) <= 1
    /\ inProgress # {} => (inProgress = {cyclePoolConfig}
                           /\ pc \in AttestPcs \cup {"awaitRecord"})
    /\ pc \in {"loop", "canUpdate", "getFeeData", "recordPrice", "sleep"}
       => inProgress = {}

\* a feed is being attested, on a retry, after another feed's run has ended
C25_Witness ==
    /\ inProgress = {POOLS[2]}
    /\ attempt > 0
    /\ pc = "waitForFinalization"
    /\ stats.attestation.successful + stats.attestation.failed > 0

\* the recordPrice transaction of the cycle is being sent
RecordPriceSent ==
    pc = "recordPrice" /\ step' = [name |-> "recordPrice", result |-> "sent"]

\* a gas price above the ceiling skips the feed for the cycle, without an
\* error and without counting a recording failure
HighGasSkipsQuietly ==
    (pc = "getFeeData" /\ Less(GasCeiling, gasPriceGwei'))
    => /\ pc' = "sleep"
       /\ stats' = stats
       /\ trace' = << >>
       /\ isRunning' /\ exitCode' = "none"

\* C26 as stated: recordPrice is sent only when the observed gas price is
\* below the ceiling MAX_GAS_PRICE_GWEI.
C26_Original ==
    [][(RecordPriceSent => Less(gasPriceGwei, GasCeiling))
       /\ HighGasSkipsQuietly]_vars

\* C26: recordPrice is sent only when the observed gas price is not above
\* the ceiling MAX_GAS_PRICE_GWEI (a price exactly at the ceiling is
\* recorded); a price above it skips the feed for the cycle without an error
\* and without counting a recording failure.
C26_NotAboveCeiling ==
    [][(RecordPriceSent => Leq(gasPriceGwei, GasCeiling))
       /\ HighGasSkipsQuietly]_vars

\* a feed was skipped for a gas price one wei above the ceiling
C26_Witness ==
    /\ pc = "sleep"
    /\ step = [name |-> "getFeeData", result |-> "high"]
    /\ gasPriceGwei = Add(GasCeiling, <<1>>)
    /\ stats.recording.successful > 0

\* C27: on every 10th cycle, and on no other, the balance is read before a
\* feed is selected.  A balance below the critical threshold halts the loop
\* in that cycle: no feed is selected, nothing is submitted, and the bot
\* takes no further step.  A balance below the warning threshold but not
\* below the critical one changes nothing: the cycle proceeds as any other.
C27_BalanceCheck ==
    /\ [][cycleCount' = cycleCount + 1
          => LET tenth == cycleCount' % BalanceCheckEvery = 0
             IN  /\ ~tenth => (balanceFLR' = balanceFLR /\ pc' = "canUpdate")
                 /\ step'.name = "checkBalance" => tenth
                 /\ (tenth /\ step'.result # "throws")
                    => /\ balanceFLR' \in BalanceAnswers
                       /\ IF balanceFLR' < CRITICAL_BALANCE_FLR
                            THEN /\ pc' = "exited"
                                 /\ ~isRunning' /\ exitCode' = 1
                                 /\ selections' = selections
                                 /\ trace' = << >>
                          ELSE /\ pc' = "canUpdate"
                               /\ isRunning' /\ exitCode' = "none"
                               /\ stats' = stats
                               /\ selections'[Len(selections')].cycle = cycleCount'
                               /\ currentPoolIndex' =
                                      (currentPoolIndex + 1) % Len(POOLS)]_vars
    /\ [][(pc = "exited" /\ step.name = "checkBalance")
          => (pc' = "exited" /\ trace' = trace /\ inProgress' = inProgress
              /\ cycleCount' = cycleCount)]_vars

\* the tenth cycle found the balance below the critical threshold
C27_Witness ==
    /\ pc = "exited"
    /\ step = [name |-> "checkBalance", result |-> "critical"]
    /\ balanceFLR < CRITICAL_BALANCE_FLR
    /\ cycleCount = BalanceCheckEvery
    /\ stats.recording.successful > 0

\* C28: an attestation that was given up leaves nothing in flight: the run
\* of its feed has ended, attestation is requested only within the run of the
\* recording made in the current pass and only for that recording's
\* transaction hash, and a pass begins with no recording and no request;
\* recordPrice is sent only after canUpdate answered true in the same pass.
C28_NothingInFlightAfterGivingUp ==
    /\ (pc \in {"sleep", "loop"} /\ step.result \in FailureAnswers)
       => inProgress = {}
    /\ InTryAttest
       => /\ inProgress = {cyclePoolConfig}
          /\ recordingResult = <<[txHash |-> cycleCount,
                                  poolConfig |-> cyclePoolConfig]>>
          /\ Len(trace) >= 2
          /\ trace[2] = TraceEntry("recordIncluded", cycleCount, 0)
    /\ fdc.requestBytes \in {0, cycleCount}
    /\ pc \in {"canUpdate", "getFeeData", "recordPrice"}
       => /\ recordingResult = NoRecording
          /\ fdc = NoFdc
          /\ trace = << >>
          /\ attempt = 0
    /\ pc = "getFeeData" => step = [name |-> "canUpdate", result |-> "true"]
    /\ pc = "recordPrice" => step = [name |-> "getFeeData", result |-> "ok"]

\* an attestation was given up in an earlier pass and a fresh recordPrice is
\* about to be sent, the rotation having come round
C28_Witness ==
    /\ pc = "recordPrice"
    /\ stats.attestation.failed > 0
    /\ stats.attestation.successful = 0
    /\ stats.recording.successful = 1
    /\ cycleCount > Len(POOLS)

\* ------------------------------------------------------------------------
\* Formatting a retrieved proof for updateFromProof, bot and dashboard
\* ------------------------------------------------------------------------

\* The response bytes are modelled as a sequence of words: a static field is
\* one word, a dynamic field (an array or a bytes value) is its length
\* followed by its elements.  A decoded unsigned integer carries the
\* JavaScript type the decoder gives it.

BigIntOf(v) == [type |-> "bigint", value |-> v]
NumberOf(v) == [type |-> "number", value |-> v]

\* BigInt(value ?? 0n)
BigInt(x) == BigIntOf(x.value)

\* Number(value), exact for the uint32 it is applied to
Number(x) == NumberOf(x.value)

SubWords(w, from, n) == [i \in 1..n |-> w[from + i - 1]]

RECURSIVE DecodeEvents(_, _, _, _, _)
\* the (uint32 logIndex, address emitterAddress, bytes32[] topics, bytes data,
\* bool removed)[] part of RESPONSE_TUPLE_TYPE, read from word pos on
DecodeEvents(w, pos, count, small, acc) ==
    IF count = 0 THEN [events |-> acc, pos |-> pos]
    ELSE LET nTopics == w[pos + 2]
             nData   == w[pos + 3 + nTopics]
             event   == [logIndex       |-> [type |-> small, value |-> w[pos]],
                         emitterAddress |-> w[pos + 1],
                         topics         |-> SubWords(w, pos + 3, nTopics),
                         data           |-> SubWords(w, pos + 4 + nTopics, nData),
                         removed        |-> w[pos + 4 + nTopics + nData] = 1]
         IN  DecodeEvents(w, pos + 5 + nTopics + nData, count - 1, small,
                          Append(acc, event))

\* decoding RESPONSE_TUPLE_TYPE; small is the JavaScript type given to
\* unsigned integers of at most 48 bits
DecodeResponse(w, small) ==
    LET nLog    == w[9]
        body    == 10 + nLog
        nInput  == w[body + 6]
        nEvents == w[body + 8 + nInput]
    IN  [attestationType     |-> w[1],
         sourceId            |-> w[2],
         votingRound         |-> BigIntOf(w[3]),
         lowestUsedTimestamp |-> BigIntOf(w[4]),
         requestBody |->
            [transactionHash       |-> w[5],
             requiredConfirmations |-> [type |-> small, value |-> w[6]],
             provideInput          |-> w[7] = 1,
             listEvents            |-> w[8] = 1,
             logIndices |-> [i \in 1..nLog |->
                                [type |-> small, value |-> w[9 + i]]]],
         responseBody |->
            [blockNumber      |-> BigIntOf(w[body]),
             timestamp        |-> BigIntOf(w[body + 1]),
             sourceAddress    |-> w[body + 2],
             isDeployment     |-> w[body + 3] = 1,
             receivingAddress |-> w[body + 4],
             value            |-> BigIntOf(w[body + 5]),
             input            |-> SubWords(w, body + 7, nInput),
             status           |-> [type |-> small, value |-> w[body + 7 + nInput]],
             events |-> DecodeEvents(w, body + 9 + nInput, nEvents, small,
                                     << >>).events]]

\* ethers AbiCoder.decode: every unsigned integer is a bigint
decode(responseHex) == DecodeResponse(responseHex, "bigint")

\* viem decodeAbiParameters: uint8, uint16 and uint32 are numbers
decodeAbiParameters(response_hex) == DecodeResponse(response_hex, "number")

EncodeBool(b) == IF b THEN 1 ELSE 0

EncodeDynamic(s) == <<Len(s)>> \o s

EncodeUints(s) == <<Len(s)>> \o [i \in 1..Len(s) |-> s[i].value]

EncodeEvent(event) ==
    <<event.logIndex.value, event.emitterAddress>>
    \o EncodeDynamic(event.topics)
    \o EncodeDynamic(event.data)
    \o <<EncodeBool(event.removed)>>

RECURSIVE EncodeEventsFrom(_, _, _)
EncodeEventsFrom(events, i, acc) ==
    IF i > Len(events) THEN acc
    ELSE EncodeEventsFrom(events, i + 1, acc \o EncodeEvent(events[i]))

\* encoding the data field of a proof struct as RESPONSE_TUPLE_TYPE, a
\* number and a bigint of the same value alike
Encode(data) ==
    <<data.attestationType, data.sourceId, data.votingRound.value,
      data.lowestUsedTimestamp.value,
      data.requestBody.transactionHash,
      data.requestBody.requiredConfirmations.value,
      EncodeBool(data.requestBody.provideInput),
      EncodeBool(data.requestBody.listEvents)>>
    \o EncodeUints(data.requestBody.logIndices)
    \o <<data.responseBody.blockNumber.value,
         data.responseBody.timestamp.value,
         data.responseBody.sourceAddress,
         EncodeBool(data.responseBody.isDeployment),
         data.responseBody.receivingAddress,
         data.responseBody.value.value>>
    \o EncodeDynamic(data.responseBody.input)
    \o <<data.responseBody.status.value>>
    \o EncodeEventsFrom(data.responseBody.events, 1,
                        <<Len(data.responseBody.events)>>)

\* formatProofForContract: a helper that loses the last element
toArrayTruncating(value) ==
    IF Len(value) = 0 THEN << >> ELSE [i \in 1..(Len(value) - 1) |-> value[i]]

\* formatProofForContract: toArray, Array.from of a decoded list
toArray(value) == [i \in 1..Len(value) |-> value[i]]

Map(s, Op(_)) == [i \in 1..Len(s) |-> Op(s[i])]

\* formatProofForContract: one element of normalizedEvents
normalizedEvent(event) ==
    [logIndex       |-> BigInt(event.logIndex),
     emitterAddress |-> event.emitterAddress,
     topics         |-> toArray(event.topics),
     data           |-> event.data,
     removed        |-> event.removed]

\* CustomFeedsBot.formatProofForContract(proof)
formatProofForContract(proof) ==
    LET rawResponse == decode(proof.responseHex)
        logIndices  == Map(toArray(rawResponse.requestBody.logIndices), BigInt)
        normalizedEvents ==
            Map(toArray(rawResponse.responseBody.events), normalizedEvent)
    IN  [merkleProof |-> proof.merkleProof,
         data |->
           [attestationType     |-> rawResponse.attestationType,
            sourceId            |-> rawResponse.sourceId,
            votingRound         |-> rawResponse.votingRound,
            lowestUsedTimestamp |-> rawResponse.lowestUsedTimestamp,
            requestBody |->
              [transactionHash |-> rawResponse.requestBody.transactionHash,
               requiredConfirmations |->
                   rawResponse.requestBody.requiredConfirmations,
               provideInput |-> rawResponse.requestBody.provideInput,
               listEvents   |-> rawResponse.requestBody.listEvents,
               logIndices   |-> logIndices],
            responseBody |->
              [blockNumber      |-> rawResponse.responseBody.blockNumber,
               timestamp        |-> rawResponse.responseBody.timestamp,
               sourceAddress    |-> rawResponse.responseBody.sourceAddress,
               isDeployment     |-> rawResponse.responseBody.isDeployment,
               receivingAddress |-> rawResponse.responseBody.receivingAddress,
               value            |-> rawResponse.responseBody.value,
               input            |-> rawResponse.responseBody.input,
               status           |-> rawResponse.responseBody.status,
               events           |-> normalizedEvents]]]

\* retrieveProof: merkleProof: response.data.proof || []
merkleProofOf(proofData) ==
    IF proofData.proofPresent THEN proofData.proof ELSE << >>

\* updateFeed: [...decodedResponse.requestBody.logIndices]
Spread(value) == [i \in 1..Len(value) |-> value[i]]

\* updateFeed: one element of proofStruct.data.responseBody.events
proofStructEvent(event) ==
    [logIndex       |-> Number(event.logIndex),
     emitterAddress |-> event.emitterAddress,
     topics         |-> event.topics,
     data           |-> event.data,
     removed        |-> event.removed]

\* updateFeed: proofStruct
proofStruct(proofData) ==
    LET decodedResponse == decodeAbiParameters(proofData.response_hex)
    IN  [merkleProof |-> merkleProofOf(proofData),
         data |->
           [attestationType     |-> decodedResponse.attestationType,
            sourceId            |-> decodedResponse.sourceId,
            votingRound         |-> decodedResponse.votingRound,
            lowestUsedTimestamp |-> decodedResponse.lowestUsedTimestamp,
            requestBody |->
              [transactionHash |-> decodedResponse.requestBody.transactionHash,
               requiredConfirmations |->
                   decodedResponse.requestBody.requiredConfirmations,
               provideInput |-> decodedResponse.requestBody.provideInput,
               listEvents   |-> decodedResponse.requestBody.listEvents,
               logIndices   |-> Spread(decodedResponse.requestBody.logIndices)],
            responseBody |->
              [blockNumber      |-> decodedResponse.responseBody.blockNumber,
               timestamp        |-> decodedResponse.responseBody.timestamp,
               sourceAddress    |-> decodedResponse.responseBody.sourceAddress,
               isDeployment     |-> decodedResponse.responseBody.isDeployment,
               receivingAddress |-> decodedResponse.responseBody.receivingAddress,
               value            |-> decodedResponse.responseBody.value,
               input            |-> decodedResponse.responseBody.input,
               status           |-> decodedResponse.responseBody.status,
               events |-> Map(decodedResponse.responseBody.events,
                              proofStructEvent)]]]

\* the responses the data-availability layer returns: words are small codes
ResponseEvent(logIndex, topics, data, removed) ==
    [logIndex |-> BigIntOf(logIndex), emitterAddress |-> 7, topics |-> topics,
     data |-> data, removed |-> removed]

ResponseOf(logIndices, input, events) ==
    [attestationType |-> 11, sourceId |-> 12, votingRound |-> BigIntOf(13),
     lowestUsedTimestamp |-> BigIntOf(14),
     requestBody |-> [transactionHash |-> 15,
                      requiredConfirmations |-> BigIntOf(1),
                      provideInput |-> TRUE, listEvents |-> TRUE,
                      logIndices |-> Map(logIndices, BigIntOf)],
     responseBody |-> [blockNumber |-> BigIntOf(16), timestamp |-> BigIntOf(17),
                       sourceAddress |-> 18, isDeployment |-> FALSE,
                       receivingAddress |-> 19, value |-> BigIntOf(0),
                       input |-> input, status |-> BigIntOf(1),
                       events |-> events]]

LogIndexLists == { << >>, <<0>>, <<2, 1>>, <<1, 1, 3>> }
InputValues   == { << >>, <<4, 5>> }
ResponseEventLists ==
    { << >>,
      <<ResponseEvent(0, <<21, 22>>, <<31, 32>>, FALSE)>>,
      <<ResponseEvent(1, << >>, << >>, TRUE)>>,
      <<ResponseEvent(1, <<22, 21, 23>>, <<31>>, FALSE),
        ResponseEvent(0, <<21>>, <<32, 31>>, FALSE)>> }
MerkleProofs  == { << >>, <<41>>, <<42, 41>>, <<41, 41, 43>> }

ResponseHexes ==
    { Encode(ResponseOf(l, i, e)) :
        l \in LogIndexLists, i \in InputValues, e \in ResponseEventLists }

FormatInputs ==
    { [client |-> c, response_hex |-> h, proofPresent |-> TRUE, proof |-> m] :
        c \in {"bot", "dashboard"}, h \in ResponseHexes, m \in MerkleProofs }
    \cup
    { [client |-> c, response_hex |-> h, proofPresent |-> FALSE, proof |-> << >>] :
        c \in {"bot", "dashboard"}, h \in ResponseHexes }

\* submitUpdateFromProof: formatProofForContract(proof) on the retrieved proof
botFormatProof ==
    /\ formatInput.client = "bot"
    /\ formatOutput = NoFormatOutput
    /\ formatOutput' =
         <<formatProofForContract([responseHex |-> formatInput.response_hex,
                                   merkleProof |-> merkleProofOf(formatInput)])>>
    /\ UNCHANGED <<feed, priceMath, bot, dash, priceRecorder, formatInput>>

\* updateFeed: proofStruct built from the get-proof answer
dashFormatProof ==
    /\ formatInput.client = "dashboard"
    /\ formatOutput = NoFormatOutput
    /\ formatOutput' = <<proofStruct(formatInput)>>
    /\ UNCHANGED <<feed, priceMath, bot, dash, priceRecorder, formatInput>>

FormatInit ==
    /\ Deploy(<<Recorder, PoolA, FeedName, "fdcVerification", 18, 18, FALSE>>, {})
    /\ PriceMathIdle
    /\ BotConstructed
    /\ DashMounted
    /\ RecorderIdle
    /\ formatInput \in FormatInputs
    /\ formatOutput = NoFormatOutput

FormatNext ==
    \/ botFormatProof
    \/ dashFormatProof

FormatSpec == FormatInit /\ [][FormatNext]_vars

\* the decoded response the formatting client started from
DecodedInput ==
    IF formatInput.client = "bot" THEN decode(formatInput.response_hex)
    ELSE decodeAbiParameters(formatInput.response_hex)

SameList(a, b) == Len(a) = Len(b) /\ \A i \in 1..Len(a) : a[i] = b[i]

\* C29: the formatted proof has every scalar field of the decoded response
\* under the same name, its merkleProof, logIndices, events and each
\* event's topics have the length and the order of the originals, and
\* encoding its data gives back the response bytes.
C29_FormatPreserves ==
    formatOutput # NoFormatOutput =>
        LET out == formatOutput[1]
            d   == DecodedInput
        IN  /\ \A f \in {"attestationType", "sourceId", "votingRound",
                         "lowestUsedTimestamp"} : out.data[f] = d[f]
            /\ \A f \in {"transactionHash", "requiredConfirmations",
                         "provideInput", "listEvents"} :
                   out.data.requestBody[f] = d.requestBody[f]
            /\ \A f \in {"blockNumber", "timestamp", "sourceAddress",
                         "isDeployment", "receivingAddress", "value", "input",
                         "status"} :
                   out.data.responseBody[f] = d.responseBody[f]
            /\ SameList(out.merkleProof, formatInput.proof)
            /\ SameList(out.data.requestBody.logIndices,
                        d.requestBody.logIndices)
            /\ Len(out.data.responseBody.events) = Len(d.responseBody.events)
            /\ \A i \in 1..Len(d.responseBody.events) :
                 LET a == out.data.responseBody.events[i]
                     b == d.responseBody.events[i]
                 IN  /\ a.logIndex.value = b.logIndex.value
                     /\ a.emitterAddress = b.emitterAddress
                     /\ SameList(a.topics, b.topics)
                     /\ a.data = b.data
                     /\ a.removed = b.removed
            /\ Encode(out.data) = formatInput.response_hex

\* the bot has formatted a response with two events, the first with three
\* topics, three log indices and a Merkle path of three nodes
C29_Witness ==
    /\ formatInput.client = "bot"
    /\ formatOutput # NoFormatOutput
    /\ Len(formatOutput[1].merkleProof) = 3
    /\ Len(formatOutput[1].data.requestBody.logIndices) = 3
    /\ Len(formatOutput[1].data.responseBody.events) = 2
    /\ Len(formatOutput[1].data.responseBody.events[1].topics) = 3

\* ------------------------------------------------------------------------
\* PriceRecorder
\* ------------------------------------------------------------------------

\* bounds on the block timestamps and on the PriceRecorded events explored
MaxTime     == 12
MaxRecorded == 2

\* block.timestamp at deployment
StartTime == 10

\* 1 days, in seconds
ONE_DAY == 86400

\* recordPriceBatch: the largest batch accepted
MAX_BATCH == 50

\* what the pool contract answers to slot0(), token0(), token1() and fee()
PoolFacts(pool) ==
    [hasSlot0 |-> pool # NotAPool,
     token0   |-> "token0",
     token1   |-> IF pool = SameTokenPool THEN "token0" ELSE "token1",
     fee      |-> IF pool = OddFeePool THEN 1234 ELSE 3000]

\* modifier onlyOwner also letting the deployer through
recorderOnlyOwnerOrDeployer(sender) == sender \in {recorderOwner, Alice}

\* modifier onlyOwner
recorderOnlyOwner(sender) == sender = recorderOwner

\* modifier respectsInterval, and the same test in recordPriceBatch and
\* canUpdate, on the pool information info
intervalElapsed(info) == blockTimestamp >= info.lastUpdate + updateInterval

\* emit PriceRecorded(pool, ...) by the function origin, entered in the
\* history h
PriceRecorded(h, pool, origin) ==
    [events    |-> [h.events EXCEPT ![pool] = @ + 1],
     last      |-> [h.last EXCEPT ![pool] = blockTimestamp],
     emergency |-> h.emergency \/ origin = "emergencyRecordPrice"]

\* the number of PriceRecorded events in the history h
EventCount(h) == h.events[PoolA]

\* the storage a call works on and the outcome so far
RecorderStorage ==
    [result |-> "ok", poolInfo |-> poolInfo, recorded |-> recorded]

\* _recordPrice(pool) on the storage st, the pools of locked answering
\* unlocked = false
_recordPrice(st, pool, locked, origin) ==
    IF pool \in locked THEN [st EXCEPT !.result = "Pool is locked"]
    ELSE [st EXCEPT !.poolInfo[pool].lastUpdate = blockTimestamp,
                    !.poolInfo[pool].updateCount = @ + 1,
                    !.recorded = PriceRecorded(@, pool, origin)]

\* a call's effect on the storage: a revert leaves it as it was
RecorderCommit(op, st) ==
    /\ EventCount(st.recorded) <= MaxRecorded
    /\ poolInfo' = IF st.result = "ok" THEN st.poolInfo ELSE poolInfo
    /\ recorded' = IF st.result = "ok" THEN st.recorded ELSE recorded
    /\ lastRecorderCall' = RecorderCall(op, st.result)

\* recordPrice(pool) without the modifier whenRecording
recorderRecordPriceWhilePaused(sender, pool, locked) ==
    /\ RecorderCommit("recordPrice",
         IF ~intervalElapsed(poolInfo[pool])
           THEN [RecorderStorage EXCEPT !.result = "Update interval not elapsed"]
         ELSE IF ~enabledPools[pool]
           THEN [RecorderStorage EXCEPT !.result = "Pool not enabled"]
         ELSE _recordPrice(RecorderStorage, pool, locked, "recordPrice"))
    /\ UNCHANGED <<feed, priceMath, bot, dash, format, recorderOwner,
                   isRecording, updateInterval, enabledPools, poolList,
                   blockTimestamp>>

\* recordPrice(pool)
recorderRecordPrice(sender, pool, locked) ==
    /\ RecorderCommit("recordPrice",
         IF ~isRecording
           THEN [RecorderStorage EXCEPT !.result = "Recording is paused"]
         ELSE IF ~intervalElapsed(poolInfo[pool])
           THEN [RecorderStorage EXCEPT !.result = "Update interval not elapsed"]
         ELSE IF ~enabledPools[pool]
           THEN [RecorderStorage EXCEPT !.result = "Pool not enabled"]
         ELSE _recordPrice(RecorderStorage, pool, locked, "recordPrice"))
    /\ UNCHANGED <<feed, priceMath, bot, dash, format, recorderOwner,
                   isRecording, updateInterval, enabledPools, poolList,
                   blockTimestamp>>

RECURSIVE recordPriceBatchFromFirstReading(_, _, _, _)
\* recordPriceBatch: the loop from index i on, testing the interval against
\* the lastUpdate read before the loop
recordPriceBatchFromFirstReading(pools, i, st, locked) ==
    IF i > Len(pools) \/ st.result # "ok" THEN st
    ELSE LET pool == pools[i] IN
         recordPriceBatchFromFirstReading(pools, i + 1,
             IF enabledPools[pool] /\ intervalElapsed(poolInfo[pool])
               THEN _recordPrice(st, pool, locked, "recordPriceBatch")
             ELSE st,
             locked)

RECURSIVE recordPriceBatchFrom(_, _, _, _)
\* recordPriceBatch: the loop from index i on
recordPriceBatchFrom(pools, i, st, locked) ==
    IF i > Len(pools) \/ st.result # "ok" THEN st
    ELSE LET pool == pools[i] IN
         recordPriceBatchFrom(pools, i + 1,
             IF enabledPools[pool] /\ intervalElapsed(st.poolInfo[pool])
               THEN _recordPrice(st, pool, locked, "recordPriceBatch")
             ELSE st,
             locked)

\* recordPriceBatch(pools)
recordPriceBatch(sender, pools, locked) ==
    /\ RecorderCommit("recordPriceBatch",
         IF ~isRecording
           THEN [RecorderStorage EXCEPT !.result = "Recording is paused"]
         ELSE IF ~(Len(pools) <= MAX_BATCH)
           THEN [RecorderStorage EXCEPT !.result = "Batch too large"]
         ELSE recordPriceBatchFrom(pools, 1, RecorderStorage, locked))
    /\ UNCHANGED <<feed, priceMath, bot, dash, format, recorderOwner,
                   isRecording, updateInterval, enabledPools, poolList,
                   blockTimestamp>>

\* emergencyRecordPrice(pool, reason)
emergencyRecordPrice(sender, pool, locked) ==
    /\ RecorderCommit("emergencyRecordPrice",
         IF ~recorderOnlyOwner(sender)
           THEN [RecorderStorage EXCEPT !.result = "Not owner"]
         ELSE IF ~enabledPools[pool]
           THEN [RecorderStorage EXCEPT !.result = "Pool not enabled"]
         ELSE _recordPrice(RecorderStorage, pool, locked, "emergencyRecordPrice"))
    /\ UNCHANGED <<feed, priceMath, bot, dash, format, recorderOwner,
                   isRecording, updateInterval, enabledPools, poolList,
                   blockTimestamp>>

\* setRecording(_isRecording)
setRecording(sender, _isRecording) ==
    /\ LET result == IF ~recorderOnlyOwner(sender) THEN "Not owner"
                     ELSE IF ~(isRecording # _isRecording)
                       THEN "Already in this state"
                     ELSE "ok"
       IN  /\ isRecording' = IF result = "ok" THEN _isRecording ELSE isRecording
           /\ lastRecorderCall' = RecorderCall("setRecording", result)
    /\ UNCHANGED <<feed, priceMath, bot, dash, format, recorderOwner,
                   updateInterval, enabledPools, poolInfo, poolList,
                   blockTimestamp, recorded>>

\* setUpdateInterval(_newInterval)
setUpdateInterval(sender, _newInterval) ==
    /\ LET result == IF ~recorderOnlyOwner(sender) THEN "Not owner"
                     ELSE IF ~(_newInterval > 0) THEN "Interval must be positive"
                     ELSE IF ~(_newInterval <= ONE_DAY) THEN "Interval too long"
                     ELSE "ok"
       IN  /\ updateInterval' = IF result = "ok" THEN _newInterval
                                ELSE updateInterval
           /\ lastRecorderCall' = RecorderCall("setUpdateInterval", result)
    /\ UNCHANGED <<feed, priceMath, bot, dash, format, recorderOwner,
                   isRecording, enabledPools, poolInfo, poolList,
                   blockTimestamp, recorded>>

\* enablePool: whether the pool is already in poolList
inList(pool) == \E i \in 1..Len(poolList) : poolList[i] = pool

\* enablePool: the checks, in the order the code makes them
enablePoolResult(sender, pool) ==
    IF ~recorderOnlyOwner(sender) THEN "Not owner"
    ELSE IF ~(pool # ZeroAddress) THEN "Invalid address"
    ELSE IF enabledPools[pool] THEN "Already enabled"
    ELSE IF ~PoolFacts(pool).hasSlot0 THEN "Invalid Uniswap V3 pool"
    ELSE IF ~(PoolFacts(pool).token0 # PoolFacts(pool).token1)
      THEN "Tokens must be different"
    ELSE IF ~(PoolFacts(pool).fee \in {100, 500, 3000, 10000})
      THEN "Invalid fee tier"
    ELSE "ok"

\* enablePool: poolInfo[pool] = PoolInfo({...})
poolInfoOnEnable(pool) ==
    [token0 |-> PoolFacts(pool).token0, token1 |-> PoolFacts(pool).token1,
     fee |-> PoolFacts(pool).fee, lastUpdate |-> 0, updateCount |-> 0]

\* enablePool(pool)
enablePool(sender, pool) ==
    /\ LET result == enablePoolResult(sender, pool) IN
       /\ IF result = "ok"
          THEN /\ enabledPools' = [enabledPools EXCEPT ![pool] = TRUE]
               /\ poolInfo' = [poolInfo EXCEPT ![pool] = poolInfoOnEnable(pool)]
               /\ poolList' = IF inList(pool) THEN poolList
                              ELSE Append(poolList, pool)
          ELSE UNCHANGED <<enabledPools, poolInfo, poolList>>
       /\ lastRecorderCall' = RecorderCall("enablePool", result)
    /\ UNCHANGED <<feed, priceMath, bot, dash, format, recorderOwner,
                   isRecording, updateInterval, blockTimestamp, recorded>>

\* disablePool(pool)
disablePool(sender, pool) ==
    /\ LET result == IF ~recorderOnlyOwner(sender) THEN "Not owner"
                     ELSE IF ~enabledPools[pool] THEN "Pool not enabled"
                     ELSE "ok"
       IN  /\ enabledPools' = IF result = "ok"
                              THEN [enabledPools EXCEPT ![pool] = FALSE]
                              ELSE enabledPools
           /\ lastRecorderCall' = RecorderCall("disablePool", result)
    /\ UNCHANGED <<feed, priceMath, bot, dash, format, recorderOwner,
                   isRecording, updateInterval, poolInfo, poolList,
                   blockTimestamp, recorded>>

\* transferOwnership(newOwner)
recorderTransferOwnership(sender, newOwner) ==
    /\ LET result == IF ~recorderOnlyOwner(sender) THEN "Not owner"
                     ELSE IF ~(newOwner # ZeroAddress) THEN "Invalid address"
                     ELSE "ok"
       IN  /\ recorderOwner' = IF result = "ok" THEN newOwner ELSE recorderOwner
           /\ lastRecorderCall' = RecorderCall("transferOwnership", result)
    /\ UNCHANGED <<feed, priceMath, bot, dash, format, isRecording,
                   updateInterval, enabledPools, poolInfo, poolList,
                   blockTimestamp, recorded>>

\* canUpdate(pool)
recorderCanUpdate(pool) ==
    IF ~isRecording \/ ~enabledPools[pool] THEN FALSE
    ELSE intervalElapsed(poolInfo[pool])

\* the next block is built, one second later
nextBlock ==
    /\ blockTimestamp < MaxTime
    /\ blockTimestamp' = blockTimestamp + 1
    /\ UNCHANGED <<feed, priceMath, bot, dash, format, recorderOwner,
                   isRecording, updateInterval, enabledPools, poolInfo,
                   poolList, recorded, lastRecorderCall>>

\* the arguments the recorder is called with
Intervals      == {1, 2}
NewIntervals   == {0, 2, ONE_DAY + 1}
LockedPools    == { {}, {PoolA} }
Batches ==
    { <<PoolA>>, <<PoolA, PoolA>>, <<PoolB, PoolA>>,
      [i \in 1..(MAX_BATCH + 1) |-> PoolA] }

RecorderInit ==
    /\ Deploy(<<Recorder, PoolA, FeedName, "fdcVerification", 18, 18, FALSE>>, {})
    /\ PriceMathIdle
    /\ BotConstructed
    /\ DashMounted
    /\ FormatIdle
    /\ \E i \in Intervals : RecorderDeployed(Alice, i, StartTime)

RecorderNext ==
    \/ \E sender \in Callers, pool \in {PoolA, PoolB}, locked \in LockedPools :
          recorderRecordPrice(sender, pool, locked)
    \/ \E sender \in Callers, pools \in Batches, locked \in LockedPools :
          recordPriceBatch(sender, pools, locked)
    \/ \E sender \in Callers, pool \in RecordedPools, locked \in LockedPools :
          emergencyRecordPrice(sender, pool, locked)
    \/ \E sender \in Callers, b \in BOOLEAN : setRecording(sender, b)
    \/ \E sender \in Callers, n \in NewIntervals : setUpdateInterval(sender, n)
    \/ \E sender \in Callers, pool \in RecorderPools \ {PoolB} :
          enablePool(sender, pool)
    \/ \E sender \in Callers, pool \in RecordedPools : disablePool(sender, pool)
    \/ \E sender \in Callers, newOwner \in Callers \cup {ZeroAddress} :
          recorderTransferOwnership(sender, newOwner)
    \/ nextBlock

RecorderSpec == RecorderInit /\ [][RecorderNext]_vars

\* C30: in a run where emergencyRecordPrice has recorded nothing, a
\* PriceRecorded event emitted by recordPrice or recordPriceBatch for a pool
\* comes at least updateInterval seconds after the pool's previous
\* PriceRecorded event, the interval being the one in force at the call.
C30_IntervalBetweenRecordings ==
    [][\A pool \in RecordedPools :
         ( /\ lastRecorderCall'.op \in {"recordPrice", "recordPriceBatch"}
           /\ recorded'.events[pool] > recorded.events[pool]
           /\ recorded.events[pool] > 0
           /\ ~recorded'.emergency )
         => blockTimestamp - recorded.last[pool] >= updateInterval]_vars

\* ------------------------------------------------------------------------
\* Properties of the feed's reads
\* ------------------------------------------------------------------------

\* C31: read() and getCurrentFeed() revert with "No data available" exactly
\* when no updateFromProof has succeeded yet, and change nothing; once one
\* has succeeded they return the stored latestValue (and
\* lastUpdateTimestamp), which are the price and timestamp of the most recent
\* successful updateFromProof, whether or not updates are paused.
C31_ReadsAfterFirstUpdate ==
    /\ last.op \in {"read", "getCurrentFeed"}
       => /\ last.result = "No data available" <=> acceptedProofs = {}
          /\ last.result = "ok" <=> acceptedProofs # {}
          /\ latestValue = last.pre.latestValue
          /\ lastUpdateTimestamp = last.pre.lastUpdateTimestamp
    /\ readOutcome.ok <=> acceptedProofs # {}
    /\ getCurrentFeedOutcome.ok <=> acceptedProofs # {}
    /\ acceptedProofs # {}
       => /\ readOutcome.value = latestValue
          /\ getCurrentFeedOutcome.value =
                <<latestValue, DECIMALS, lastUpdateTimestamp>>
    /\ IF last.op = "updateFromProof" /\ last.result = "ok"
       THEN LET out == _parseEvents(last.arg.data.responseBody.events) IN
            /\ latestValue = out.price
            /\ lastUpdateTimestamp = out.timestamp
       ELSE /\ latestValue = last.pre.latestValue
            /\ lastUpdateTimestamp = last.pre.lastUpdateTimestamp

\* read() answered while updates were paused, after two successful updates
C31_Witness ==
    /\ last.op = "read"
    /\ last.result = "ok"
    /\ ~acceptingUpdates
    /\ updateCount = 2

\* the positions of the events of the configured recorder that carry the
\* PriceRecorded signature
Qualifying(events) ==
    { i \in 1..Len(events) :
        /\ events[i].emitterAddress = priceRecorderAddress
        /\ Len(events[i].topics) > 0
        /\ events[i].topics[1] = PRICE_RECORDED_TOPIC }

\* the first of them in list order
FirstQualifying(events) ==
    CHOOSE i \in Qualifying(events) : \A j \in Qualifying(events) : i <= j

\* the last call was an updateFromProof that reached _parseEvents
ReachedParseEvents ==
    /\ last.op = "updateFromProof"
    /\ acceptingUpdates
    /\ verifyEVMTransaction(last.arg)
    /\ last.arg.data.responseBody.receivingAddress = priceRecorderAddress
    /\ last.arg.data.responseBody.status = 1

\* C32: the first event in list order emitted by the configured recorder
\* with the PriceRecorded signature decides: without one the proof is
\* rejected with "PriceRecorded event not found", if its pool is not the
\* configured pool the proof is rejected with "Wrong pool" whatever follows,
\* and otherwise the price and timestamp stored are those of that event;
\* events before it never cause a rejection.
C32_FirstQualifyingEventDecides ==
    ReachedParseEvents =>
        LET events == last.arg.data.responseBody.events IN
        IF Qualifying(events) = {}
          THEN last.result = "PriceRecorded event not found"
        ELSE LET evt == events[FirstQualifying(events)] IN
             IF Len(evt.topics) < 2 THEN last.result = PanicIndex
             ELSE IF evt.topics[2] # poolAddress THEN last.result = "Wrong pool"
             ELSE /\ last.result \notin {"PriceRecorded event not found",
                                         "Wrong pool"}
                  /\ last.result = "ok"
                     => /\ latestValue =
                             priceOf[AbiDecode(evt.data).sqrtPriceX96].value
                        /\ lastUpdateTimestamp =
                             Truncate(AbiDecode(evt.data).eventTimestamp, 8)

\* a proof whose first PriceRecorded event of the recorder is for another
\* pool was rejected although a later event is for the configured pool
C32_Witness ==
    /\ ReachedParseEvents
    /\ last.arg.data.responseBody.events = <<EvWrongPool, EvGood1>>
    /\ last.result = "Wrong pool"

\* a proof was accepted on its second event, the first being another event
\* of the recorder
C32_WitnessSkipped ==
    /\ ReachedParseEvents
    /\ last.arg.data.responseBody.events = <<EvOther, EvGood1>>
    /\ last.result = "ok"

\* ------------------------------------------------------------------------
\* Properties of the scheduler's retries and waits
\* ------------------------------------------------------------------------

\* C33: for one recording at most one updateFromProof of the scheduler is
\* included in a block, whatever fails during tryAttest.
C33_AtMostOneCommit == committed <= 1

\* ------------------------------------------------------------------------
\* Properties of cancellation in the dashboard
\* ------------------------------------------------------------------------

\* the moves of updateFeed that pass a cancellation checkpoint: from the
\* step before `if (cancelled) throw` to the step after it
CheckpointMoves ==
    { <<"awaitRecord", "prepareRequest">>, <<"prepareRequest", "fee">>,
      <<"getVotingRoundId", "isFinalized">>, <<"isFinalized", "isFinalized">>,
      <<"isFinalized", "daSync">>, <<"daSync", "getProof">>,
      <<"getProof", "updateFromProof">> }

\* C34: once cancel() has been called during a run of updateFeed, the run
\* does not pass a cancellation checkpoint: it sends neither
\* requestAttestation nor updateFromProof beyond one, and when it ends at a
\* checkpoint it ends in step "error".  During a run the state cancelled is
\* true exactly when cancel() has been called since the run began.
C34_CancelStopsRun ==
    [][(uiPc # "idle" /\ cancelled)
       => ~(<<uiPc, uiPc'>> \in CheckpointMoves)]_vars

\* C35: a run of updateFeed ends with "Cancelled by user" only if cancel()
\* was called during that run, that is, after the call cleared the flag.
C35_CancelIsPerRun ==
    [][(uiPc # "idle" /\ uiPc' = "idle"
        /\ progress' = Progress("error", "Cancelled by user"))
       => cancelled]_vars

\* ------------------------------------------------------------------------
\* Properties of the recorder's calls
\* ------------------------------------------------------------------------

\* C36: recordPrice(pool) succeeds only where canUpdate(pool) is true.  Where
\* canUpdate(pool) is false the call reverts and changes nothing; where it is
\* true and the pool is unlocked the call succeeds, sets the pool's
\* lastUpdate to the block's time and adds one to its updateCount.
C36_RecordPriceFollowsCanUpdate ==
    [][\A pool \in {PoolA, PoolB}, locked \in LockedPools :
         ( /\ lastRecorderCall'.op = "recordPrice"
           /\ \E sender \in Callers : recorderRecordPrice(sender, pool, locked) )
         => /\ lastRecorderCall'.result = "ok" => recorderCanUpdate(pool)
            /\ ~recorderCanUpdate(pool)
               => /\ lastRecorderCall'.result # "ok"
                  /\ UNCHANGED <<recorderOwner, isRecording, updateInterval,
                                 enabledPools, poolInfo, poolList, recorded>>
            /\ (recorderCanUpdate(pool) /\ pool \notin locked)
               => /\ lastRecorderCall'.result = "ok"
                  /\ poolInfo'[pool].lastUpdate = blockTimestamp
                  /\ poolInfo'[pool].updateCount
                       = poolInfo[pool].updateCount + 1]_vars

\* recordPrice has just recorded the pool a second time
C36_Witness ==
    /\ lastRecorderCall = RecorderCall("recordPrice", "ok")
    /\ poolInfo[PoolA].lastUpdate = blockTimestamp
    /\ poolInfo[PoolA].updateCount = 2

\* the pool is enabled and its interval has elapsed, before the call
eligible(pool) == enabledPools[pool] /\ intervalElapsed(poolInfo[pool])

\* the pool is an entry of the batch
inBatch(pools, pool) == \E i \in 1..Len(pools) : pools[i] = pool

\* C37: recordPriceBatch reverts, changing nothing, exactly when recording is
\* paused, the batch has more than 50 entries or an eligible pool of the
\* batch is locked.  Otherwise every eligible pool of the batch is recorded
\* once, however often its address is repeated, and the pools that are
\* disabled or whose interval has not elapsed keep their lastUpdate and
\* updateCount.
C37_BatchRecordsEligibleOnce ==
    [][\A pools \in Batches, locked \in LockedPools :
         ( /\ lastRecorderCall'.op = "recordPriceBatch"
           /\ \E sender \in Callers : recordPriceBatch(sender, pools, locked) )
         => LET reverts ==
                  \/ ~isRecording
                  \/ Len(pools) > MAX_BATCH
                  \/ \E pool \in locked : inBatch(pools, pool) /\ eligible(pool)
            IN  /\ lastRecorderCall'.result # "ok" <=> reverts
                /\ reverts
                   => UNCHANGED <<recorderOwner, isRecording, updateInterval,
                                  enabledPools, poolInfo, poolList, recorded>>
                /\ ~reverts
                   => /\ \A pool \in RecorderPools :
                           IF inBatch(pools, pool) /\ eligible(pool)
                           THEN /\ poolInfo'[pool].lastUpdate = blockTimestamp
                                /\ poolInfo'[pool].updateCount
                                     = poolInfo[pool].updateCount + 1
                           ELSE poolInfo'[pool] = poolInfo[pool]
                      /\ \A pool \in RecordedPools :
                           recorded'.events[pool]
                             = recorded.events[pool]
                               + (IF inBatch(pools, pool) /\ eligible(pool)
                                  THEN 1 ELSE 0)]_vars

\* recordPriceBatch has just recorded the pool a second time
C37_Witness ==
    /\ lastRecorderCall = RecorderCall("recordPriceBatch", "ok")
    /\ poolInfo[PoolA].lastUpdate = blockTimestamp
    /\ poolInfo[PoolA].updateCount = 2
    /\ recorded.events[PoolA] = 2

\* ------------------------------------------------------------------------
\* Properties of the scheduler's main loop
\* ------------------------------------------------------------------------

\* C38: consecutive cycles of the main loop are separated by the
\* CHECK_INTERVAL wait: once a cycle has begun, the bot comes back to the top
\* of the loop, still running, only by the wait having elapsed, also when the
\* cycle ended with an error caught by the main loop.
C38_WaitBetweenCycles ==
    [][(pc' = "loop" /\ isRunning' /\ cycleCount' >= 1)
       => step' = [name |-> "sleep", result |-> "elapsed"]]_vars

\* ------------------------------------------------------------------------
\* The admin functions of the two contracts
\* ------------------------------------------------------------------------

\* both contracts as deployed by Alice
AdminInit ==
    /\ Deploy(<<Recorder, PoolA, FeedName, "fdcVerification", 18, 18, FALSE>>, {})
    /\ PriceMathIdle
    /\ BotConstructed
    /\ DashMounted
    /\ FormatIdle
    /\ RecorderDeployed(Alice, 1, StartTime)

AdminNext ==
    \/ \E sender \in Callers : pauseUpdates(sender)
    \/ \E sender \in Callers : resumeUpdates(sender)
    \/ \E sender \in Callers, newOwner \in Callers \cup {ZeroAddress} :
          transferOwnership(sender, newOwner)
    \/ \E sender \in Callers, b \in BOOLEAN : setRecording(sender, b)
    \/ \E sender \in Callers, n \in NewIntervals : setUpdateInterval(sender, n)
    \/ \E sender \in Callers, pool \in RecorderPools \ {PoolB} :
          enablePool(sender, pool)
    \/ \E sender \in Callers, pool \in RecordedPools : disablePool(sender, pool)
    \/ \E sender \in Callers, pool \in RecordedPools, locked \in LockedPools :
          emergencyRecordPrice(sender, pool, locked)
    \/ \E sender \in Callers, newOwner \in Callers \cup {ZeroAddress} :
          recorderTransferOwnership(sender, newOwner)

AdminSpec == AdminInit /\ [][AdminNext]_vars

\* a call by sender of an admin function of PoolPriceCustomFeed
feedAdminCall(sender) ==
    \/ pauseUpdates(sender)
    \/ resumeUpdates(sender)
    \/ \E newOwner \in Callers \cup {ZeroAddress} :
          transferOwnership(sender, newOwner)

\* a call by sender of an admin function of PriceRecorder
recorderAdminCall(sender) ==
    \/ \E b \in BOOLEAN : setRecording(sender, b)
    \/ \E n \in NewIntervals : setUpdateInterval(sender, n)
    \/ \E pool \in RecorderPools \ {PoolB} : enablePool(sender, pool)
    \/ \E pool \in RecordedPools : disablePool(sender, pool)
    \/ \E pool \in RecordedPools, locked \in LockedPools :
          emergencyRecordPrice(sender, pool, locked)
    \/ \E newOwner \in Callers \cup {ZeroAddress} :
          recorderTransferOwnership(sender, newOwner)

\* an admin function called by anyone but the current owner reverts with
\* "Not owner" and changes nothing, in both contracts
NotOwnerReverts ==
    \A sender \in Callers :
       /\ (sender # owner /\ UNCHANGED lastRecorderCall /\ feedAdminCall(sender))
          => /\ last'.result = "Not owner"
             /\ UNCHANGED <<config, storage, acceptedProofs>>
       /\ ( /\ sender # recorderOwner /\ UNCHANGED last
            /\ recorderAdminCall(sender) )
          => /\ lastRecorderCall'.result = "Not owner"
             /\ UNCHANGED <<recorderOwner, isRecording, updateInterval,
                            enabledPools, poolInfo, poolList, recorded>>

\* C39: in both contracts every admin function reverts with no state change
\* unless called by the current owner, and a successful
\* transferOwnership(newOwner) to an address other than the caller leaves
\* newOwner the owner and the previous owner no longer one.
C39_AdminOnlyOwner ==
    [][/\ NotOwnerReverts
       /\ \A sender \in Callers : \A newOwner \in Callers \ {sender} :
            /\ (transferOwnership(sender, newOwner) /\ last'.result = "ok")
               => sender = owner /\ owner' = newOwner /\ owner' # sender
            /\ ( /\ recorderTransferOwnership(sender, newOwner)
                 /\ lastRecorderCall'.result = "ok" )
               => /\ sender = recorderOwner
                  /\ recorderOwner' = newOwner
                  /\ recorderOwner' # sender]_vars

\* C39 as stated: after any successful transferOwnership the caller, who was
\* the owner, is no longer the owner
C39_Original ==
    [][\A sender \in Callers, newOwner \in Callers :
         /\ (transferOwnership(sender, newOwner) /\ last'.result = "ok")
            => owner' # sender
         /\ ( /\ recorderTransferOwnership(sender, newOwner)
              /\ lastRecorderCall'.result = "ok" )
            => recorderOwner' # sender]_vars

\* both contracts have been handed over to Bob, and the previous owner's
\* last call to each was refused
C39_Witness ==
    /\ owner = Bob
    /\ last.op = "pauseUpdates" /\ last.sender = Alice
    /\ last.result = "Not owner"
    /\ acceptingUpdates
    /\ recorderOwner = Bob
    /\ lastRecorderCall = RecorderCall("disablePool", "Not owner")
    /\ enabledPools[PoolA]

=============================================================================
